---- MODULE Spec2Model ----
(***************************************************************************)
(* A model of the chunking, batching, token-aware and aggregation code of  *)
(* gemini-batcher.  The repository's algorithms live in the code samples   *)
(* of its documentation and notebooks; each program below is one of those  *)
(* samples, translated statement by statement.                             *)
(*                                                                         *)
(*   SpecChunk  fixed and sliding-window chunking                          *)
(*              (docs/concepts/fixed_chunking.md, examples/chunking.ipynb) *)
(*   SpecBatch  the batching sample and its API loop                       *)
(*              (docs/library/strategies/TextSemanticChunking.md 82-119)   *)
(*   SpecTA     the token-aware binary-search loop                         *)
(*              (docs/concepts/other_techniques.md 53-96)                  *)
(*   SpecAgg    the Response aggregator (response.py is not in src/; its   *)
(*              merge and finalize are modelled from spec.md section 4.5)  *)
(*   SpecAggDup the aggregator under repeated merges for one pair          *)
(*   SpecConc   the worker pool over the work queue and the aggregator     *)
(*              (spec.md section 5)                                        *)
(*   SpecSem    semantic chunking                                          *)
(*              (docs/concepts/other_techniques.md 106-152)                *)
(*   SpecChunking  the fixed, sliding-window and semantic samples together *)
(*   SpecCfg    strategy construction and generate_content's dispatch      *)
(*              (restrictions and compatibility list of docs/library)      *)
(*   SpecRoute  chunk-routing semantic batching                            *)
(*              (docs/concepts/other_techniques.md 160-175)                *)
(*   SpecExample  the sliding-window sample on the worked example          *)
(*   SpecEngine the engine's calls over chunks x batches                   *)
(*              (gemini_batcher.py is not in src/; spec.md sections 2-5)   *)
(*   SpecSeg    sentence splitting in front of semantic chunking           *)
(*              (docs/concepts/other_techniques.md 110-152)                *)
(*   SpecUpload the media upload and its readiness wait                    *)
(*              (docs/concepts/multimedia.md 38-53)                        *)
(***************************************************************************)
EXTENDS Integers, Sequences, FiniteSets, TLC

VARIABLES
    \* ---- chunking samples
    content,            \* the text being chunked (a sequence of characters)
    chunk_char_size,
    window_char_size,
    chunk_count,
    chunk_i,            \* the loop variable i of `for i in range(chunk_count)`
    chunked_content,    \* the list built by the loop
    cpc,                \* position of the chunking program
    \* ---- batching sample
    questions,
    questions_per_batch,
    batch_i,            \* the loop variable i of the batching loop
    batched_questions,
    api_k,              \* number of batches the API loop has consumed
    input_tokens,
    output_tokens,
    bpc,                \* position of the batching program
    \* ---- token-aware loop
    queue,
    input_token_limit,
    response,           \* the name `response` read at line 87
    reponse,            \* the name `reponse` assigned at line 77
    gen_calls,          \* history: number of generate_content calls issued
    truncated_calls,    \* history: number of calls that ended MAX_TOKENS
    exceed_count,       \* history: number of items found over the input limit
    valid_items,        \* history: items that reached line 95
    tpc,                \* position of the token-aware program
    \* ---- aggregator
    calls,              \* per (chunk, batch) pair: its state and result
    resp_content,       \* Response.content
    resp_input_tokens,  \* Response.input_tokens
    resp_output_tokens, \* Response.output_tokens
    first_merged,       \* history: the pair merged first (<<>> before any merge)
    finalized,
    returned,           \* what finalize() handed back
    integrity_errors,   \* what finalize() reported
    debug_build,        \* whether the build keeps the seen-set of merged pairs
    seen,               \* the seen-set, keyed by (chunk, batch) pair
    caller_errors,      \* number of caller errors merge has reported
    dup_merges,         \* history: number of repeated merge calls made
    \* ---- worker pool over the work queue and the aggregator
    mutex,              \* 0 when free, else the worker inside a protected operation
    work_queue,         \* the adaptive work queue (item identities)
    wpc,                \* per worker: its position
    wlocal,             \* per worker: the item it holds and what it has read
    pool_tokens,        \* the aggregator's token counter
    pool_answers,       \* the items whose answers the aggregator holds
    enqueued,           \* history: the items ever put on the queue
    dequeued,           \* history: per item, how often it was dequeued
    completed,          \* history: per item, the usage its completed call reported
    merged,             \* history: the items whose merge has finished
    \* ---- semantic chunking sample
    sentences,
    similarities,       \* cosine similarity of adjacent sentences, as levels
    min_sentences_per_chunk,
    max_sentences_per_chunk,
    threshold_factor,   \* numerator of the factor, over FactorDenominator
    boundaries,
    current_chunk_start_pos,
    sem_i,              \* the loop variable i of the two loops
    content_chunks,
    spc,                \* position of the semantic chunking program
    \* ---- strategy construction and dispatch
    strategy_class,     \* the strategy class being constructed
    strategy_args,      \* the arguments given to its constructor
    chunking_strategy,  \* the constructed strategy object (<<>> before)
    content_category,   \* the input category of the content: text or media
    produced_chunks,    \* number of chunks the engine has produced
    external_calls,     \* number of external calls made
    gpc,                \* position of the construct-and-generate program
    \* ---- chunk-routing semantic batching
    route_chunks,       \* len(content_chunks) of the routing sample
    route_questions,    \* its questions
    chunk_similarity,   \* similarity of the current question to each chunk
    most_similar_chunk, \* np.argmax(chunk_similarity), 0-based
    question_batches,   \* one bucket per chunk
    route_i,            \* the loop variable i of the routing loop
    batch_size,
    routed_batches,     \* per bucket, the batches sent for it
    rpc,                \* position of the routing program
    \* ---- the engine's calls over chunks x batches
    eng_chunks,         \* n, the number of chunks produced
    eng_batches,        \* m, the number of batches produced
    eng_todo,           \* the (chunk, batch) pairs still to be called
    eng_in_flight,      \* the pairs whose call is issued and not yet merged
    eng_issued,         \* history: per pair, the number of calls issued
    eng_merges,         \* history: per pair, the number of results merged
    epc,                \* position of the engine
    \* ---- media upload and its readiness wait
    uploaded_file,      \* uploaded_file.state.name, as the upload returned it
    server_state,       \* the state of the file on the server
    filepath,           \* whether the name `filepath` is bound
    polls,              \* history: number of iterations of the wait loop
    upc                 \* position of the upload program

chunkVars == <<content, chunk_char_size, window_char_size, chunk_count, chunk_i,
               chunked_content, cpc>>
batchVars == <<questions, questions_per_batch, batch_i, batched_questions, api_k,
               input_tokens, output_tokens, bpc>>
taVars    == <<queue, input_token_limit, response, reponse, gen_calls,
               truncated_calls, exceed_count, valid_items, tpc>>
aggVars   == <<calls, resp_content, resp_input_tokens, resp_output_tokens,
               first_merged, finalized, returned, integrity_errors, debug_build,
               seen, caller_errors, dup_merges>>
concVars  == <<mutex, work_queue, wpc, wlocal, pool_tokens, pool_answers,
               enqueued, dequeued, completed, merged>>
coreVars  == <<chunkVars, batchVars, taVars, aggVars>>
semVars   == <<sentences, similarities, min_sentences_per_chunk,
               max_sentences_per_chunk, threshold_factor, boundaries,
               current_chunk_start_pos, sem_i, content_chunks, spc>>
cfgVars   == <<strategy_class, strategy_args, chunking_strategy,
               content_category, produced_chunks, external_calls, gpc>>
routeVars == <<route_chunks, route_questions, chunk_similarity,
               most_similar_chunk, question_batches, route_i, batch_size,
               routed_batches, rpc>>
engVars   == <<eng_chunks, eng_batches, eng_todo, eng_in_flight, eng_issued,
               eng_merges, epc>>
upVars    == <<uploaded_file, server_state, filepath, polls, upc>>
extVars   == <<concVars, semVars, cfgVars, routeVars, engVars, upVars>>
vars      == <<chunkVars, batchVars, taVars, aggVars, extVars>>

\* What the actions of each later program leave alone.
concFrame == <<coreVars, semVars, cfgVars, routeVars, engVars, upVars>>
semFrame == <<coreVars, concVars, cfgVars, routeVars, engVars, upVars>>
cfgFrame == <<coreVars, concVars, semVars, routeVars, engVars, upVars>>
routeFrame == <<coreVars, concVars, semVars, cfgVars, engVars, upVars>>
engFrame == <<coreVars, concVars, semVars, cfgVars, routeVars, upVars>>
upFrame == <<coreVars, concVars, semVars, cfgVars, routeVars, engVars>>

(***************************************************************************)
(* Bounds of the model.                                                    *)
(***************************************************************************)
MaxLen == 7
MaxChunk == 4
MaxQuestions == 12
MaxBatch == 5
MaxTokens == 2
MaxContent == 3
MaxTAQuestions == 3
MaxLimit == 4
MaxIter == 6
NChunks == 2
NQuestions == 3
AggBatchSize == 2
MaxDuplicates == 1
NWorkers == 2
MaxItems == 5
MaxSentences == 5
MaxSim == 2
MaxMin == 2
FactorDenominator == 2
MaxParam == 3
MaxRouteChunks == 2
MaxRouteQuestions == 3
MaxBatchSize == 2
MaxText == 3
MaxPolls == 12
MaxEngChunks == 2
MaxEngBatches == 3

(***************************************************************************)
(* Python helpers.                                                         *)
(***************************************************************************)
Min(a, b) == IF a <= b THEN a ELSE b
Max(a, b) == IF a >= b THEN a ELSE b

\* s[a:b] for indices a, b >= 0: both are clamped to len(s), and an empty
\* or inverted range gives the empty sequence.
PySlice(s, a, b) ==
    LET lo == Min(Max(a, 0), Len(s))
        hi == Min(Max(b, 0), Len(s))
    IN  IF lo >= hi THEN <<>> ELSE SubSeq(s, lo + 1, hi)

\* math.ceil(a / b) for a >= 0, b > 0.
PyCeilDiv(a, b) == (a + b - 1) \div b

\* range(a, b) as the sequence a, a+1, ..., b-1 (empty when a >= b).
PyRange(a, b) == [k \in 1..Max(b - a, 0) |-> a + k - 1]

RECURSIVE Flatten(_)
Flatten(ss) == IF ss = <<>> THEN <<>> ELSE Head(ss) \o Flatten(Tail(ss))

\* sep.join(ss): the elements of ss with sep between neighbours.
RECURSIVE PyJoin(_, _)
PyJoin(sep, ss) ==
    IF ss = <<>> THEN <<>>
    ELSE IF Len(ss) = 1 THEN <<Head(ss)>>
    ELSE <<Head(ss), sep>> \o PyJoin(sep, Tail(ss))

\* The text and the question list used by the samples: distinct elements, so
\* that a slice determines the positions it was taken from.
Alphabet == <<"a", "b", "c", "d", "e", "f", "g", "h", "i", "j">>
QuestionNames == <<"Q1", "Q2", "Q3", "Q4", "Q5", "Q6", "Q7", "Q8", "Q9", "Q10",
                   "Q11", "Q12", "Q13", "Q14">>
Text(n) == SubSeq(Alphabet, 1, n)
QuestionList(n) == SubSeq(QuestionNames, 1, n)

(***************************************************************************)
(* Idle values of the programs a specification does not run.               *)
(***************************************************************************)
ChunkIdle ==
    /\ content = <<>> /\ chunk_char_size = 1 /\ window_char_size = 0
    /\ chunk_count = 0 /\ chunk_i = 0 /\ chunked_content = <<>> /\ cpc = "idle"
BatchIdle ==
    /\ questions = <<>> /\ questions_per_batch = 1 /\ batch_i = 0
    /\ batched_questions = <<>> /\ api_k = 0 /\ input_tokens = 0
    /\ output_tokens = 0 /\ bpc = "idle"
TAIdle ==
    /\ queue = <<>> /\ input_token_limit = 0 /\ response = "UNBOUND"
    /\ reponse = "UNBOUND" /\ gen_calls = 0 /\ truncated_calls = 0
    /\ exceed_count = 0 /\ valid_items = <<>> /\ tpc = "idle"
AggIdle ==
    /\ calls = <<>> /\ resp_content = {} /\ resp_input_tokens = 0
    /\ resp_output_tokens = 0 /\ first_merged = <<>> /\ finalized = FALSE
    /\ returned = <<>> /\ integrity_errors = {} /\ debug_build = FALSE
    /\ seen = {} /\ caller_errors = 0 /\ dup_merges = 0
ConcIdle ==
    /\ mutex = 0 /\ work_queue = <<>> /\ wpc = <<>> /\ wlocal = <<>>
    /\ pool_tokens = 0 /\ pool_answers = {} /\ enqueued = {}
    /\ dequeued = <<>> /\ completed = <<>> /\ merged = {}
CoreIdle == ChunkIdle /\ BatchIdle /\ TAIdle /\ AggIdle
SemIdle ==
    /\ sentences = <<>> /\ similarities = <<>> /\ min_sentences_per_chunk = 1
    /\ max_sentences_per_chunk = 2 /\ threshold_factor = 0 /\ boundaries = <<>>
    /\ current_chunk_start_pos = 0 /\ sem_i = 0 /\ content_chunks = <<>>
    /\ spc = "idle"
CfgIdle ==
    /\ strategy_class = "" /\ strategy_args = <<>> /\ chunking_strategy = <<>>
    /\ content_category = "" /\ produced_chunks = 0 /\ external_calls = 0
    /\ gpc = "idle"
RouteIdle ==
    /\ route_chunks = 0 /\ route_questions = <<>> /\ chunk_similarity = <<>>
    /\ most_similar_chunk = 0 /\ question_batches = <<>> /\ route_i = 0
    /\ batch_size = 1 /\ routed_batches = <<>> /\ rpc = "idle"
EngIdle ==
    /\ eng_chunks = 0 /\ eng_batches = 0 /\ eng_todo = <<>>
    /\ eng_in_flight = {} /\ eng_issued = <<>> /\ eng_merges = <<>>
    /\ epc = "idle"
UpIdle ==
    /\ uploaded_file = "" /\ server_state = "" /\ filepath = FALSE
    /\ polls = 0 /\ upc = "idle"
MoreIdle == EngIdle /\ UpIdle
ExtIdle == ConcIdle /\ SemIdle /\ CfgIdle /\ RouteIdle /\ MoreIdle

(***************************************************************************)
(* Fixed and sliding-window chunking.                                      *)
(***************************************************************************)
\* One entry of chunked_content: the slice the loop appends, with the two
\* loop locals chunk_start_pos and chunk_end_pos it was cut at.
Chunk(text, start, end) ==
    [start |-> start, end |-> end, text |-> PySlice(text, start, end)]

\* Variant of FixedChunkCount that rounds down (len(content) // chunk_char_size).
FixedChunkCount_Floor(text, c) == Len(text) \div c

\* chunk_count = math.ceil(len(content) / chunk_char_size)
FixedChunkCount(text, c) == PyCeilDiv(Len(text), c)

\* The body of the fixed-chunking loop for loop index i.
FixedChunk(text, c, i) ==
    LET chunk_start_pos == i * c
        chunk_end_pos == Min(chunk_start_pos + c, Len(text))
    IN  Chunk(text, chunk_start_pos, chunk_end_pos)

\* Variant of SlidingChunkCount that divides by the chunk size, as fixed
\* chunking does.
SlidingChunkCount_NoWindow(text, c, w) == PyCeilDiv(Len(text), c)

\* Variant of SlidingChunkCount that rounds down
\* (len(content) // (chunk_char_size - window_char_size)).
SlidingChunkCount_Floor(text, c, w) == Len(text) \div (c - w)

\* chunk_count = math.ceil(len(content) / (chunk_char_size - window_char_size))
SlidingChunkCount(text, c, w) == PyCeilDiv(Len(text), c - w)

\* Variant of SlidingChunk that steps by the whole chunk size, ignoring the window.
SlidingChunk_NoWindow(text, c, w, i) ==
    LET chunk_start_pos == i * c
        chunk_end_pos == Min(chunk_start_pos + c, Len(text))
    IN  Chunk(text, chunk_start_pos, chunk_end_pos)

\* Variant of SlidingChunk that treats the window as at least one character.
SlidingChunk_WindowAtLeastOne(text, c, w, i) ==
    LET chunk_start_pos == i * (c - Max(w, 1))
        chunk_end_pos == Min(chunk_start_pos + c, Len(text))
    IN  Chunk(text, chunk_start_pos, chunk_end_pos)

\* Variant of SlidingChunk whose end position is not limited to the content length.
SlidingChunk_NoClamp(text, c, w, i) ==
    LET chunk_start_pos == i * (c - w)
        chunk_end_pos == chunk_start_pos + c
    IN  Chunk(text, chunk_start_pos, chunk_end_pos)

\* The body of the sliding-window loop for loop index i.
SlidingChunk(text, c, w, i) ==
    LET chunk_start_pos == i * (c - w)
        chunk_end_pos == Min(chunk_start_pos + c, Len(text))
    IN  Chunk(text, chunk_start_pos, chunk_end_pos)

ChunkInit ==
    /\ \E n \in 0..MaxLen : content = Text(n)
    /\ chunk_char_size \in 1..MaxChunk
    /\ window_char_size \in 0..(chunk_char_size - 1)
    /\ chunk_count = 0
    /\ chunk_i = 0
    /\ chunked_content = <<>>
    /\ cpc = "start"

FixedBegin ==
    /\ cpc = "start"
    /\ chunk_count' = FixedChunkCount(content, chunk_char_size)
    /\ chunk_i' = 0
    /\ chunked_content' = <<>>
    /\ cpc' = "fixed"
    /\ UNCHANGED <<content, chunk_char_size, window_char_size>>
    /\ UNCHANGED <<batchVars, taVars, aggVars, extVars>>

FixedStep ==
    /\ cpc = "fixed"
    /\ chunk_i < chunk_count
    /\ chunked_content' =
           Append(chunked_content, FixedChunk(content, chunk_char_size, chunk_i))
    /\ chunk_i' = chunk_i + 1
    /\ UNCHANGED <<content, chunk_char_size, window_char_size, chunk_count, cpc>>
    /\ UNCHANGED <<batchVars, taVars, aggVars, extVars>>

FixedEnd ==
    /\ cpc = "fixed"
    /\ chunk_i >= chunk_count
    /\ cpc' = "fixed_done"
    /\ UNCHANGED <<content, chunk_char_size, window_char_size, chunk_count,
                   chunk_i, chunked_content>>
    /\ UNCHANGED <<batchVars, taVars, aggVars, extVars>>

SlidingBegin ==
    /\ cpc = "start"
    /\ chunk_count' = SlidingChunkCount(content, chunk_char_size, window_char_size)
    /\ chunk_i' = 0
    /\ chunked_content' = <<>>
    /\ cpc' = "sliding"
    /\ UNCHANGED <<content, chunk_char_size, window_char_size>>
    /\ UNCHANGED <<batchVars, taVars, aggVars, extVars>>

SlidingStep ==
    /\ cpc = "sliding"
    /\ chunk_i < chunk_count
    /\ chunked_content' =
           Append(chunked_content,
                  SlidingChunk(content, chunk_char_size, window_char_size, chunk_i))
    /\ chunk_i' = chunk_i + 1
    /\ UNCHANGED <<content, chunk_char_size, window_char_size, chunk_count, cpc>>
    /\ UNCHANGED <<batchVars, taVars, aggVars, extVars>>

SlidingEnd ==
    /\ cpc = "sliding"
    /\ chunk_i >= chunk_count
    /\ cpc' = "sliding_done"
    /\ UNCHANGED <<content, chunk_char_size, window_char_size, chunk_count,
                   chunk_i, chunked_content>>
    /\ UNCHANGED <<batchVars, taVars, aggVars, extVars>>

ChunkNext ==
    \/ FixedBegin
    \/ FixedStep
    \/ FixedEnd
    \/ SlidingBegin
    \/ SlidingStep
    \/ SlidingEnd

InitChunk == ChunkInit /\ BatchIdle /\ TAIdle /\ AggIdle /\ ExtIdle

SpecChunk == InitChunk /\ [][ChunkNext]_vars

(***************************************************************************)
(* The sliding-window sample on the worked example: the content            *)
(* "Sentence one. Sentence two. Sentence three. Sentence four.", one       *)
(* character per element, with chunk_char_size = 30 and                    *)
(* window_char_size = 10.  The sample is also run on every prefix of the   *)
(* example content.                                                        *)
(***************************************************************************)
ExampleContent ==
    <<"S", "e", "n", "t", "e", "n", "c", "e", " ", "o",
      "n", "e", ".", " ", "S", "e", "n", "t", "e", "n",
      "c", "e", " ", "t", "w", "o", ".", " ", "S", "e",
      "n", "t", "e", "n", "c", "e", " ", "t", "h", "r",
      "e", "e", ".", " ", "S", "e", "n", "t", "e", "n",
      "c", "e", " ", "f", "o", "u", "r", ".">>

ExampleInit ==
    /\ \E n \in 0..Len(ExampleContent) : content = SubSeq(ExampleContent, 1, n)
    /\ chunk_char_size = 30
    /\ window_char_size = 10
    /\ chunk_count = 0
    /\ chunk_i = 0
    /\ chunked_content = <<>>
    /\ cpc = "start"

ExampleNext ==
    \/ SlidingBegin
    \/ SlidingStep
    \/ SlidingEnd

InitExample == ExampleInit /\ BatchIdle /\ TAIdle /\ AggIdle /\ ExtIdle

SpecExample == InitExample /\ [][ExampleNext]_vars

(***************************************************************************)
(* The batching sample and its API loop.                                   *)
(***************************************************************************)
\* for i in range(len(questions), questions_per_batch)
BatchLoopRange(qs, b) == PyRange(Len(qs), b)

\* batch = "\n".join(questions[i * b : min((i+1) * b, len(questions))])
MakeBatch(qs, b, i) == PyJoin("\n", PySlice(qs, i * b, Min((i + 1) * b, Len(qs))))

\* Variant of AddTokens that assigns the call's count instead of adding it.
AddTokens_Overwrite(total, count) == count

\* input_tokens += response.usage_metadata.prompt_token_count (and the same
\* statement for output_tokens and candidates_token_count).
AddTokens(total, count) == total + count

BatchInit ==
    /\ \E n \in 0..MaxQuestions : questions = QuestionList(n)
    /\ questions_per_batch \in 1..MaxBatch
    /\ batch_i = 0
    /\ batched_questions = <<>>
    /\ api_k = 0
    /\ input_tokens = 0
    /\ output_tokens = 0
    /\ bpc = "batching"

\* One iteration of the batching loop; batch_i counts the iterations done.
BatchStep ==
    /\ bpc = "batching"
    /\ batch_i < Len(BatchLoopRange(questions, questions_per_batch))
    /\ batched_questions' =
           Append(batched_questions,
                  MakeBatch(questions, questions_per_batch,
                            BatchLoopRange(questions, questions_per_batch)[batch_i + 1]))
    /\ batch_i' = batch_i + 1
    /\ UNCHANGED <<questions, questions_per_batch, api_k, input_tokens,
                   output_tokens, bpc>>
    /\ UNCHANGED <<chunkVars, taVars, aggVars, extVars>>

\* The batching loop ends; input_tokens = 0 and output_tokens = 0 follow.
BatchEnd ==
    /\ bpc = "batching"
    /\ batch_i >= Len(BatchLoopRange(questions, questions_per_batch))
    /\ input_tokens' = 0
    /\ output_tokens' = 0
    /\ api_k' = 0
    /\ bpc' = "calling"
    /\ UNCHANGED <<questions, questions_per_batch, batch_i, batched_questions>>
    /\ UNCHANGED <<chunkVars, taVars, aggVars, extVars>>

\* One iteration of `for batch in batched_questions`: the call answers with
\* some usage_metadata, which is added to the two counters.
ApiCall ==
    /\ bpc = "calling"
    /\ api_k < Len(batched_questions)
    /\ \E prompt_token_count \in 1..MaxTokens, candidates_token_count \in 0..MaxTokens :
           /\ input_tokens' = AddTokens(input_tokens, prompt_token_count)
           /\ output_tokens' = AddTokens(output_tokens, candidates_token_count)
    /\ api_k' = api_k + 1
    /\ UNCHANGED <<questions, questions_per_batch, batch_i, batched_questions, bpc>>
    /\ UNCHANGED <<chunkVars, taVars, aggVars, extVars>>

ApiEnd ==
    /\ bpc = "calling"
    /\ api_k >= Len(batched_questions)
    /\ bpc' = "printed"
    /\ UNCHANGED <<questions, questions_per_batch, batch_i, batched_questions,
                   api_k, input_tokens, output_tokens>>
    /\ UNCHANGED <<chunkVars, taVars, aggVars, extVars>>

BatchNext ==
    \/ BatchStep
    \/ BatchEnd
    \/ ApiCall
    \/ ApiEnd

InitBatch == ChunkIdle /\ BatchInit /\ TAIdle /\ AggIdle /\ ExtIdle

SpecBatch == InitBatch /\ [][BatchNext]_vars

(***************************************************************************)
(* The token-aware binary-search loop.                                     *)
(***************************************************************************)
Item(c, q) == [content |-> c, questions |-> q]

\* client.count_tokens: the external token counter.  One token per element
\* of each part of `contents`.
CountTokens(contents) ==
    LET RECURSIVE Total(_)
        Total(parts) == IF parts = <<>> THEN 0 ELSE Len(Head(parts)) + Total(Tail(parts))
    IN  Total(contents)

\* contents = [curr_content, curr_content]
CountedContents(item) == <<item.content, item.content>>

\* input_tokens_required > input_token_limit
InputTooLarge(item, limit) == CountTokens(CountedContents(item)) > limit

\* chunked_content = [curr_content[0 : len(curr_content)//2 + 1],
\*                    curr_content[len(curr_content)//2 + 1 : len(curr_content)]]
\* and the two queue.append calls that follow.
SplitContent(item) ==
    LET n == Len(item.content)
    IN  << Item(PySlice(item.content, 0, n \div 2 + 1), item.questions),
           Item(PySlice(item.content, n \div 2 + 1, n), item.questions) >>

\* batch1, batch2 = curr_questions[0 : len(curr_questions)//2 + 1],
\*                  curr_content[len(curr_questions)//2 + 1 : len(curr_questions)]
\* and the two queue.append calls that follow.  batch2 is cut from
\* curr_content.
SplitQuestions(item) ==
    LET n == Len(item.questions)
    IN  << Item(item.content, PySlice(item.questions, 0, n \div 2 + 1)),
           Item(item.content, PySlice(item.content, n \div 2 + 1, n)) >>

FinishReasons == {"STOP", "MAX_TOKENS"}

\* The loop assigns the call's result to `reponse` and then reads `response`,
\* a name the loop never assigns: it is unbound (the read raises NameError)
\* or still bound to the result of an earlier call (lines 37-44), whose
\* finish reason is either value.
TAInit ==
    /\ \E n \in 0..MaxContent : content = Text(n)
    /\ \E m \in 0..MaxTAQuestions : questions = QuestionList(m)
    /\ input_token_limit \in 0..MaxLimit
    /\ response \in {"UNBOUND"} \cup FinishReasons
    /\ reponse = "UNBOUND"
    /\ queue = <<Item(content, questions)>>
    /\ gen_calls = 0
    /\ truncated_calls = 0
    /\ exceed_count = 0
    /\ valid_items = <<>>
    /\ tpc = "loop"

TAOthersIdle ==
    /\ chunk_char_size = 1 /\ window_char_size = 0 /\ chunk_count = 0
    /\ chunk_i = 0 /\ chunked_content = <<>> /\ cpc = "idle"
    /\ questions_per_batch = 1 /\ batch_i = 0 /\ batched_questions = <<>>
    /\ api_k = 0 /\ input_tokens = 0 /\ output_tokens = 0 /\ bpc = "idle"

\* The iterations the model follows: the loop itself has no bound.
MayIterate == tpc = "loop" /\ queue # <<>> /\ exceed_count + gen_calls < MaxIter

\* An iteration that finds the input over the limit: lines 61-74.
TAInputTooLarge ==
    /\ MayIterate
    /\ InputTooLarge(Head(queue), input_token_limit)
    /\ queue' = Tail(queue) \o SplitContent(Head(queue))
    /\ exceed_count' = exceed_count + 1
    /\ UNCHANGED <<input_token_limit, response, reponse, gen_calls,
                   truncated_calls, valid_items, tpc>>
    /\ UNCHANGED <<chunkVars, batchVars, aggVars, extVars>>

\* The generation call of lines 77-84, with its finish reason.
Generate(finish_reason) ==
    /\ reponse' = finish_reason
    /\ gen_calls' = gen_calls + 1
    /\ truncated_calls' =
           truncated_calls + (IF finish_reason = "MAX_TOKENS" THEN 1 ELSE 0)

\* An iteration that makes the call and reads an unbound `response`.
TANameError ==
    /\ MayIterate
    /\ ~InputTooLarge(Head(queue), input_token_limit)
    /\ \E finish_reason \in FinishReasons : Generate(finish_reason)
    /\ response = "UNBOUND"
    /\ queue' = Tail(queue)
    /\ tpc' = "NameError"
    /\ UNCHANGED <<input_token_limit, response, exceed_count, valid_items>>
    /\ UNCHANGED <<chunkVars, batchVars, aggVars, extVars>>

\* An iteration that makes the call and takes the MAX_TOKENS branch: lines
\* 76-93.
TAOutputTruncated ==
    /\ MayIterate
    /\ ~InputTooLarge(Head(queue), input_token_limit)
    /\ \E finish_reason \in FinishReasons : Generate(finish_reason)
    /\ response = "MAX_TOKENS"
    /\ queue' = Tail(queue) \o SplitQuestions(Head(queue))
    /\ UNCHANGED <<input_token_limit, response, exceed_count, valid_items, tpc>>
    /\ UNCHANGED <<chunkVars, batchVars, aggVars, extVars>>

\* An iteration that makes the call and falls through to line 95, where the
\* response is handled as a valid one.
TAValid ==
    /\ MayIterate
    /\ ~InputTooLarge(Head(queue), input_token_limit)
    /\ \E finish_reason \in FinishReasons :
           /\ Generate(finish_reason)
           /\ valid_items' =
                  Append(valid_items,
                         [item |-> Head(queue), finish_reason |-> finish_reason])
    /\ response = "STOP"
    /\ queue' = Tail(queue)
    /\ UNCHANGED <<input_token_limit, response, exceed_count, tpc>>
    /\ UNCHANGED <<chunkVars, batchVars, aggVars, extVars>>

\* while len(queue) > 0 fails.
TAExit ==
    /\ tpc = "loop"
    /\ queue = <<>>
    /\ tpc' = "done"
    /\ UNCHANGED <<queue, input_token_limit, response, reponse, gen_calls,
                   truncated_calls, exceed_count, valid_items>>
    /\ UNCHANGED <<chunkVars, batchVars, aggVars, extVars>>

TANext ==
    \/ TAInputTooLarge
    \/ TANameError
    \/ TAOutputTruncated
    \/ TAValid
    \/ TAExit

InitTA == TAInit /\ TAOthersIdle /\ AggIdle /\ ExtIdle

SpecTA == InitTA /\ [][TANext]_vars

(***************************************************************************)
(* The Response aggregator: merge and finalize.                            *)
(***************************************************************************)
\* The (chunk, batch) pairs of a request: every chunk with every batch, the
\* batches being the contiguous groups of AggBatchSize question indices.
NBatches == PyCeilDiv(NQuestions, AggBatchSize)

QuestionIndices(b) ==
    [k \in 1..(Min(b * AggBatchSize, NQuestions) - (b - 1) * AggBatchSize)
        |-> (b - 1) * AggBatchSize + k]

Pairs == (1..NChunks) \X (1..NBatches)

\* The pairs in the order they are submitted: chunk by chunk, batch by batch.
SubmissionOrder ==
    [k \in 1..(NChunks * NBatches) |->
        <<((k - 1) \div NBatches) + 1, ((k - 1) % NBatches) + 1>>]

\* The answer the model gives to question q from chunk c.
AnswerText(c, q) == "A" \o ToString(c) \o "." \o ToString(q)

Answers(pair) ==
    [k \in 1..Len(QuestionIndices(pair[2])) |->
        AnswerText(pair[1], QuestionIndices(pair[2])[k])]

\* The usage_metadata a call may report.
Usages ==
    {[prompt_token_count |-> k, candidates_token_count |-> MaxTokens + 1 - k] :
        k \in 1..MaxTokens}

\* Variant of MergeAnswers that keeps one answer per question: a later merge
\* replaces what an earlier one recorded for the same question.
MergeAnswers_Overwrite(recorded, pair, question_indices, answers) ==
    {e \in recorded : \A k \in 1..Len(question_indices) : e.question # question_indices[k]}
        \cup {[question |-> question_indices[k], chunk |-> pair[1], answer |-> answers[k]] :
                 k \in 1..Len(question_indices)}

\* merge, the answers: each answer is recorded under its question's original
\* index and the chunk it was answered from.
MergeAnswers(recorded, pair, question_indices, answers) ==
    recorded \cup {[question |-> question_indices[k], chunk |-> pair[1], answer |-> answers[k]] :
                      k \in 1..Len(question_indices)}

\* The ascending sequence of the elements of a finite set of integers.
RECURSIVE Ascending(_)
Ascending(S) ==
    IF S = {} THEN <<>>
    ELSE LET m == CHOOSE x \in S : \A y \in S : x <= y
         IN  <<m>> \o Ascending(S \ {m})

\* Variant of MissingIndices that reports nothing.
MissingIndices_Silent(recorded) == {}

\* finalize, the report: the question indices no merge recorded an answer for.
MissingIndices(recorded) ==
    {q \in 1..NQuestions : \A e \in recorded : e.question # q}

\* finalize, the answers: one entry per answered question, by ascending
\* question index, each with its answers by ascending chunk.
FinalAnswers(recorded) ==
    LET answered == {e.question : e \in recorded}
        ChunksOf(q) == {e.chunk : e \in {x \in recorded : x.question = q}}
        AnswerOf(q, c) ==
            (CHOOSE e \in recorded : e.question = q /\ e.chunk = c).answer
        qs == Ascending(answered)
    IN  [k \in 1..Len(qs) |->
            [question |-> qs[k],
             answers |-> [j \in 1..Cardinality(ChunksOf(qs[k])) |->
                             AnswerOf(qs[k], Ascending(ChunksOf(qs[k]))[j])]]]

\* The seen-set after a merge for pair: the pair is added where the build
\* keeps the set.
Remember(seen_set, keeps_set, pair) ==
    IF keeps_set THEN seen_set \cup {pair} ELSE seen_set

\* Variant of IsDuplicate that never finds a pair in the seen-set.
IsDuplicate_Never(seen_set, pair) == FALSE

\* The seen-set lookup: was a merge for this pair recorded before?
IsDuplicate(seen_set, pair) == pair \in seen_set

AggInit ==
    /\ calls = [p \in Pairs |-> [state |-> "pending", prompt_token_count |-> 0,
                                 candidates_token_count |-> 0]]
    /\ resp_content = {}
    /\ resp_input_tokens = 0
    /\ resp_output_tokens = 0
    /\ first_merged = <<>>
    /\ finalized = FALSE
    /\ returned = <<>>
    /\ integrity_errors = {}
    /\ debug_build = FALSE
    /\ seen = {}
    /\ caller_errors = 0
    /\ dup_merges = 0

\* The call for a pair completes with some usage and its result is merged:
\* merge(question_indices, answers, usage).
Merge(pair) ==
    /\ ~finalized
    /\ calls[pair].state = "pending"
    /\ \E usage \in Usages :
           /\ calls' = [calls EXCEPT ![pair] =
                           [state |-> "merged",
                            prompt_token_count |-> usage.prompt_token_count,
                            candidates_token_count |-> usage.candidates_token_count]]
           /\ resp_input_tokens' = AddTokens(resp_input_tokens, usage.prompt_token_count)
           /\ resp_output_tokens' =
                  AddTokens(resp_output_tokens, usage.candidates_token_count)
    /\ resp_content' =
           MergeAnswers(resp_content, pair, QuestionIndices(pair[2]), Answers(pair))
    /\ first_merged' = IF first_merged = <<>> THEN pair ELSE first_merged
    /\ seen' = Remember(seen, debug_build, pair)
    /\ UNCHANGED <<finalized, returned, integrity_errors, debug_build,
                   caller_errors, dup_merges>>
    /\ UNCHANGED <<chunkVars, batchVars, taVars, extVars>>

MergeSome == \E pair \in Pairs : Merge(pair)

\* merge is called again for a pair that was merged before, with the same
\* result.  With the seen-set the call is reported as a caller error and
\* records nothing.  Without it nothing tells the call from a first one: it
\* either has no effect (merge is idempotent per pair) or records its result
\* like any other merge, and the caller is told nothing.
MergeAgain(pair) ==
    /\ ~finalized
    /\ calls[pair].state = "merged"
    /\ dup_merges < MaxDuplicates
    /\ dup_merges' = dup_merges + 1
    /\ IF IsDuplicate(seen, pair)
       THEN /\ caller_errors' = caller_errors + 1
            /\ UNCHANGED <<resp_content, resp_input_tokens, resp_output_tokens>>
       ELSE /\ UNCHANGED caller_errors
            /\ \/ UNCHANGED <<resp_content, resp_input_tokens, resp_output_tokens>>
               \/ /\ resp_input_tokens' =
                         AddTokens(resp_input_tokens, calls[pair].prompt_token_count)
                  /\ resp_output_tokens' =
                         AddTokens(resp_output_tokens,
                                   calls[pair].candidates_token_count)
                  /\ resp_content' =
                         MergeAnswers(resp_content, pair,
                                      QuestionIndices(pair[2]), Answers(pair))
    /\ UNCHANGED <<calls, first_merged, seen, finalized, returned,
                   integrity_errors, debug_build>>
    /\ UNCHANGED <<chunkVars, batchVars, taVars, extVars>>

MergeAgainSome == \E pair \in Pairs : MergeAgain(pair)

\* finalize() -> Response: whatever was merged is returned, and the question
\* indices never merged are reported.
Finalize ==
    /\ ~finalized
    /\ finalized' = TRUE
    /\ returned' = [content |-> FinalAnswers(resp_content),
                    input_tokens |-> resp_input_tokens,
                    output_tokens |-> resp_output_tokens]
    /\ integrity_errors' = MissingIndices(resp_content)
    /\ UNCHANGED <<calls, resp_content, resp_input_tokens, resp_output_tokens,
                   first_merged, debug_build, seen, caller_errors, dup_merges>>
    /\ UNCHANGED <<chunkVars, batchVars, taVars, extVars>>

AggNext ==
    \/ MergeSome
    \/ Finalize

InitAgg == ChunkIdle /\ BatchIdle /\ TAIdle /\ AggInit /\ ExtIdle

SpecAgg == InitAgg /\ [][AggNext]_vars

\* The aggregator under a caller that may repeat a merge, in a build with or
\* without the seen-set.
AggDupInit ==
    /\ calls = [p \in Pairs |-> [state |-> "pending", prompt_token_count |-> 0,
                                 candidates_token_count |-> 0]]
    /\ resp_content = {}
    /\ resp_input_tokens = 0
    /\ resp_output_tokens = 0
    /\ first_merged = <<>>
    /\ finalized = FALSE
    /\ returned = <<>>
    /\ integrity_errors = {}
    /\ debug_build \in BOOLEAN
    /\ seen = {}
    /\ caller_errors = 0
    /\ dup_merges = 0

AggDupNext ==
    \/ MergeSome
    \/ MergeAgainSome

InitAggDup == ChunkIdle /\ BatchIdle /\ TAIdle /\ AggDupInit /\ ExtIdle

SpecAggDup == InitAggDup /\ [][AggDupNext]_vars

(***************************************************************************)
(* The worker pool: workers take items from the adaptive work queue, make  *)
(* the external call outside any protection, and then either enqueue the   *)
(* two halves of the item or merge its result.  Dequeue, enqueue and merge *)
(* are read-then-write operations on shared state, each run under the      *)
(* mutual exclusion the concurrency model requires.                        *)
(***************************************************************************)
Workers == 1..NWorkers
Items == 1..MaxItems

\* The two halves of item i, and whether i can be bisected at all.
Children(i) == <<2 * i, 2 * i + 1>>
Splittable(i) == 2 * i + 1 <= MaxItems

NoLocal == [item |-> 0, children |-> <<>>, usage |-> 0, read_queue |-> <<>>,
            read_tokens |-> 0, read_answers |-> {}]

\* Variant of MayEnter without mutual exclusion: a worker enters a protected
\* operation whoever is inside.
MayEnter_Unprotected(m, w) == TRUE

\* Mutual exclusion: a worker enters a protected operation only when no
\* worker is inside one.
MayEnter(m, w) == m = 0

ConcInit ==
    /\ mutex = 0
    /\ work_queue = <<1>>
    /\ wpc = [w \in Workers |-> "idle"]
    /\ wlocal = [w \in Workers |-> NoLocal]
    /\ pool_tokens = 0
    /\ pool_answers = {}
    /\ enqueued = {1}
    /\ dequeued = [i \in Items |-> 0]
    /\ completed = [i \in Items |-> 0]
    /\ merged = {}

\* dequeue, first half: enter and read the queue.
BeginDequeue(w) ==
    /\ wpc[w] = "idle"
    /\ MayEnter(mutex, w)
    /\ mutex' = w
    /\ wlocal' = [wlocal EXCEPT ![w] = [NoLocal EXCEPT !.read_queue = work_queue]]
    /\ wpc' = [wpc EXCEPT ![w] = "dequeue"]
    /\ UNCHANGED <<work_queue, pool_tokens, pool_answers, enqueued, dequeued,
                   completed, merged>>
    /\ UNCHANGED concFrame

\* dequeue, second half: take the head of what was read, write the rest back
\* and leave.  On an empty queue the worker leaves with nothing.
EndDequeue(w) ==
    /\ wpc[w] = "dequeue"
    /\ mutex' = 0
    /\ IF wlocal[w].read_queue = <<>>
       THEN /\ wpc' = [wpc EXCEPT ![w] = "idle"]
            /\ UNCHANGED <<work_queue, wlocal, dequeued>>
       ELSE /\ work_queue' = Tail(wlocal[w].read_queue)
            /\ wlocal' = [wlocal EXCEPT ![w].item = Head(wlocal[w].read_queue)]
            /\ dequeued' = [dequeued EXCEPT ![Head(wlocal[w].read_queue)] = @ + 1]
            /\ wpc' = [wpc EXCEPT ![w] = "call"]
    /\ UNCHANGED <<pool_tokens, pool_answers, enqueued, completed, merged>>
    /\ UNCHANGED concFrame

\* The external call finds the item too large (input over the limit or
\* output truncated): the item is bisected.
CallSplits(w) ==
    /\ wpc[w] = "call"
    /\ Splittable(wlocal[w].item)
    /\ wlocal' = [wlocal EXCEPT ![w].children = Children(wlocal[w].item)]
    /\ wpc' = [wpc EXCEPT ![w] = "split"]
    /\ UNCHANGED <<mutex, work_queue, pool_tokens, pool_answers, enqueued,
                   dequeued, completed, merged>>
    /\ UNCHANGED concFrame

\* The external call completes with answers and a token count.
CallCompletes(w) ==
    /\ wpc[w] = "call"
    /\ \E usage \in 1..MaxTokens :
           /\ wlocal' = [wlocal EXCEPT ![w].usage = usage]
           /\ completed' = [completed EXCEPT ![wlocal[w].item] = usage]
    /\ wpc' = [wpc EXCEPT ![w] = "answered"]
    /\ UNCHANGED <<mutex, work_queue, pool_tokens, pool_answers, enqueued,
                   dequeued, merged>>
    /\ UNCHANGED concFrame

\* enqueue, first half: enter and read the queue.
BeginEnqueue(w) ==
    /\ wpc[w] = "split"
    /\ MayEnter(mutex, w)
    /\ mutex' = w
    /\ wlocal' = [wlocal EXCEPT ![w].read_queue = work_queue]
    /\ wpc' = [wpc EXCEPT ![w] = "enqueue"]
    /\ UNCHANGED <<work_queue, pool_tokens, pool_answers, enqueued, dequeued,
                   completed, merged>>
    /\ UNCHANGED concFrame

\* enqueue, second half: write back what was read with the two halves
\* appended, and leave.
EndEnqueue(w) ==
    /\ wpc[w] = "enqueue"
    /\ mutex' = 0
    /\ work_queue' = wlocal[w].read_queue \o wlocal[w].children
    /\ enqueued' = enqueued \cup {wlocal[w].children[k] : k \in 1..2}
    /\ wlocal' = [wlocal EXCEPT ![w] = NoLocal]
    /\ wpc' = [wpc EXCEPT ![w] = "idle"]
    /\ UNCHANGED <<pool_tokens, pool_answers, dequeued, completed, merged>>
    /\ UNCHANGED concFrame

\* merge, first half: enter and read the aggregator.
BeginMerge(w) ==
    /\ wpc[w] = "answered"
    /\ MayEnter(mutex, w)
    /\ mutex' = w
    /\ wlocal' = [wlocal EXCEPT ![w].read_tokens = pool_tokens,
                                ![w].read_answers = pool_answers]
    /\ wpc' = [wpc EXCEPT ![w] = "merge"]
    /\ UNCHANGED <<work_queue, pool_tokens, pool_answers, enqueued, dequeued,
                   completed, merged>>
    /\ UNCHANGED concFrame

\* merge, second half: write back what was read with this call's answers and
\* token count added, and leave.
EndMerge(w) ==
    /\ wpc[w] = "merge"
    /\ mutex' = 0
    /\ pool_tokens' = AddTokens(wlocal[w].read_tokens, wlocal[w].usage)
    /\ pool_answers' = wlocal[w].read_answers \cup {wlocal[w].item}
    /\ merged' = merged \cup {wlocal[w].item}
    /\ wlocal' = [wlocal EXCEPT ![w] = NoLocal]
    /\ wpc' = [wpc EXCEPT ![w] = "idle"]
    /\ UNCHANGED <<work_queue, enqueued, dequeued, completed>>
    /\ UNCHANGED concFrame

DoBeginDequeue == \E w \in Workers : BeginDequeue(w)
DoEndDequeue == \E w \in Workers : EndDequeue(w)
DoCallSplits == \E w \in Workers : CallSplits(w)
DoCallCompletes == \E w \in Workers : CallCompletes(w)
DoBeginEnqueue == \E w \in Workers : BeginEnqueue(w)
DoEndEnqueue == \E w \in Workers : EndEnqueue(w)
DoBeginMerge == \E w \in Workers : BeginMerge(w)
DoEndMerge == \E w \in Workers : EndMerge(w)

ConcNext ==
    \/ DoBeginDequeue
    \/ DoEndDequeue
    \/ DoCallSplits
    \/ DoCallCompletes
    \/ DoBeginEnqueue
    \/ DoEndEnqueue
    \/ DoBeginMerge
    \/ DoEndMerge

InitConc == CoreIdle /\ ConcInit /\ SemIdle /\ CfgIdle /\ RouteIdle /\ MoreIdle

SpecConc == InitConc /\ [][ConcNext]_vars

(***************************************************************************)
(* Semantic chunking (docs/concepts/other_techniques.md 106-152).          *)
(***************************************************************************)
SentenceNames == <<"S1", "S2", "S3", "S4", "S5", "S6", "S7">>
SentenceList(n) == SubSeq(SentenceNames, 1, n)

RECURSIVE SumSeq(_)
SumSeq(xs) == IF xs = <<>> THEN 0 ELSE Head(xs) + SumSeq(Tail(xs))

\* similarities[i] < mean - std_dev * threshold_factor, with the factor
\* p / FactorDenominator and p >= 0, in exact integer arithmetic: with m the
\* number of similarities, d = m * (mean - similarities[i]) and
\* v = m^2 * variance, the comparison is FactorDenominator * d > p * sqrt(v).
BelowThreshold(sims, p, i) ==
    LET m == Len(sims)
        total == SumSeq(sims)
        squares == SumSeq([k \in 1..m |-> sims[k] * sims[k]])
        d == total - m * sims[i + 1]
        v == m * squares - total * total
    IN  /\ d > 0
        /\ FactorDenominator * FactorDenominator * d * d > p * p * v

\* if similarities[i] < similarity_threshold
\*    and (i + 1) - current_chunk_start_pos >= min_sentences_per_chunk
NaturalBoundary(sims, p, i, start, min) ==
    BelowThreshold(sims, p, i) /\ (i + 1) - start >= min

\* Variant of ForcedBoundary that lets a chunk grow one sentence too long.
ForcedBoundary_Late(i, start, max) == (i + 1) - start > max

\* elif (i + 1) - current_chunk_start_pos >= max_sentences_per_chunk
ForcedBoundary(i, start, max) == (i + 1) - start >= max

\* Variant of NeedsEndPoint that never adds the end point.
NeedsEndPoint_Never(bs, sims) == FALSE

\* if boundaries[-1] != len(similarities) + 1
NeedsEndPoint(bs, sims) == bs[Len(bs)] # Len(sims) + 1

\* " ".join(sentences[boundaries[i] : boundaries[i+1]])
SemChunk(ss, bs, i) == PyJoin(" ", PySlice(ss, bs[i + 1], bs[i + 2]))

\* re.split always returns at least one sentence, so the sentence list is
\* never empty; there is one similarity per adjacent pair of sentences.
SemInit ==
    /\ \E n \in 1..MaxSentences :
           /\ sentences = SentenceList(n)
           /\ similarities \in [1..(n - 1) -> 0..MaxSim]
    /\ min_sentences_per_chunk \in 1..MaxMin
    /\ max_sentences_per_chunk \in (min_sentences_per_chunk + 1)..(MaxMin + 1)
    /\ threshold_factor \in 0..FactorDenominator
    /\ boundaries = <<>>
    /\ current_chunk_start_pos = 0
    /\ sem_i = 0
    /\ content_chunks = <<>>
    /\ spc = "start"

\* boundaries = [0]; current_chunk_start_pos = 0
SemBegin ==
    /\ spc = "start"
    /\ boundaries' = <<0>>
    /\ current_chunk_start_pos' = 0
    /\ sem_i' = 0
    /\ spc' = "boundaries"
    /\ UNCHANGED <<sentences, similarities, min_sentences_per_chunk,
                   max_sentences_per_chunk, threshold_factor, content_chunks>>
    /\ UNCHANGED semFrame

\* One iteration of for i in range(len(similarities)).
SemBoundaryStep ==
    /\ spc = "boundaries"
    /\ sem_i < Len(similarities)
    /\ IF NaturalBoundary(similarities, threshold_factor, sem_i,
                          current_chunk_start_pos, min_sentences_per_chunk)
       THEN /\ boundaries' = Append(boundaries, sem_i + 1)
            /\ current_chunk_start_pos' = sem_i + 1
       ELSE IF ForcedBoundary(sem_i, current_chunk_start_pos,
                              max_sentences_per_chunk)
       THEN /\ boundaries' = Append(boundaries, sem_i + 1)
            /\ current_chunk_start_pos' = sem_i + 1
       ELSE UNCHANGED <<boundaries, current_chunk_start_pos>>
    /\ sem_i' = sem_i + 1
    /\ UNCHANGED <<sentences, similarities, min_sentences_per_chunk,
                   max_sentences_per_chunk, threshold_factor, content_chunks, spc>>
    /\ UNCHANGED semFrame

\* The loop ends; the end point is added if it has not already been added,
\* and content_chunks = [].
SemEndPoint ==
    /\ spc = "boundaries"
    /\ sem_i >= Len(similarities)
    /\ boundaries' = IF NeedsEndPoint(boundaries, similarities)
                     THEN Append(boundaries, Len(similarities) + 1)
                     ELSE boundaries
    /\ content_chunks' = <<>>
    /\ sem_i' = 0
    /\ spc' = "chunks"
    /\ UNCHANGED <<sentences, similarities, min_sentences_per_chunk,
                   max_sentences_per_chunk, threshold_factor,
                   current_chunk_start_pos>>
    /\ UNCHANGED semFrame

\* One iteration of for i in range(len(boundaries) - 1).
SemChunkStep ==
    /\ spc = "chunks"
    /\ sem_i < Len(boundaries) - 1
    /\ content_chunks' = Append(content_chunks, SemChunk(sentences, boundaries, sem_i))
    /\ sem_i' = sem_i + 1
    /\ UNCHANGED <<sentences, similarities, min_sentences_per_chunk,
                   max_sentences_per_chunk, threshold_factor, boundaries,
                   current_chunk_start_pos, spc>>
    /\ UNCHANGED semFrame

SemEnd ==
    /\ spc = "chunks"
    /\ sem_i >= Len(boundaries) - 1
    /\ spc' = "done"
    /\ UNCHANGED <<sentences, similarities, min_sentences_per_chunk,
                   max_sentences_per_chunk, threshold_factor, boundaries,
                   current_chunk_start_pos, sem_i, content_chunks>>
    /\ UNCHANGED semFrame

SemNext ==
    \/ SemBegin
    \/ SemBoundaryStep
    \/ SemEndPoint
    \/ SemChunkStep
    \/ SemEnd

InitSem == CoreIdle /\ ConcIdle /\ SemInit /\ CfgIdle /\ RouteIdle /\ MoreIdle

SpecSem == InitSem /\ [][SemNext]_vars

\* The three chunking samples side by side: a run is a run of the fixed or
\* sliding-window sample, or a run of the semantic sample.
ChunkingNext ==
    \/ FixedBegin
    \/ FixedStep
    \/ FixedEnd
    \/ SlidingBegin
    \/ SlidingStep
    \/ SlidingEnd
    \/ SemBegin
    \/ SemBoundaryStep
    \/ SemEndPoint
    \/ SemChunkStep
    \/ SemEnd

InitChunking == InitChunk \/ InitSem

SpecChunking == InitChunking /\ [][ChunkingNext]_vars

(***************************************************************************)
(* Strategy construction and dispatch: a chunking strategy is constructed  *)
(* from its arguments and handed to generate_content with a content.       *)
(* The argument of a sliding-window class named `size` is chunk_char_size  *)
(* or chunk_duration and `window` is window_char_size or window_duration;  *)
(* for a semantic class `min`, `max` and `factor` are                      *)
(* min_sentences_per_chunk, max_sentences_per_chunk and the numerator of   *)
(* similarity_threshold_factor over FactorDenominator.                     *)
(***************************************************************************)
SlidingClasses == {"TextSlidingWindowChunking", "MediaSlidingWindowChunking"}
SemanticClasses == {"TextSemanticChunking", "MediaSemanticChunking"}
StrategyClasses ==
    SlidingClasses \cup SemanticClasses \cup {"TextTokenAwareChunkingAndBatching"}

\* Variant of TextSlidingRejected that lets chunk_char_size = window_char_size
\* through.
TextSlidingRejected_Strict(size, window) == size < window \/ window < 0

\* TextSlidingWindowChunking: the argument values the class lists as
\* restricted (chunk_char_size <= window_char_size, window_char_size < 0).
TextSlidingRejected(size, window) == size <= window \/ window < 0

\* MediaSlidingWindowChunking: chunk_duration > window_duration and
\* window_duration >= 0.
MediaSlidingAccepted(size, window) == size > window /\ window >= 0

\* TextSemanticChunking and MediaSemanticChunking:
\* similarity_threshold_factor is within 0 and 1, max_sentences_per_chunk > 0,
\* max_sentences_per_chunk > min_sentences_per_chunk.
SemanticAccepted(min, max, factor) ==
    /\ 0 <= factor /\ factor <= FactorDenominator
    /\ max > 0
    /\ max > min

\* Whether the arguments satisfy the restrictions of the class.
Accepted(class, args) ==
    CASE class = "TextSlidingWindowChunking" ->
             ~TextSlidingRejected(args.size, args.window)
      [] class = "MediaSlidingWindowChunking" ->
             MediaSlidingAccepted(args.size, args.window)
      [] class \in SemanticClasses ->
             SemanticAccepted(args.min, args.max, args.factor)
      [] OTHER -> TRUE

\* Variant of Supported that takes every strategy for every input.
Supported_Any(category, class) == TRUE

\* The chunking strategies each input category is compatible with.
Supported(category, class) ==
    \/ /\ category = "text"
       /\ class \in {"TextSlidingWindowChunking", "TextSemanticChunking",
                     "TextTokenAwareChunkingAndBatching"}
    \/ /\ category = "media"
       /\ class \in {"TextSlidingWindowChunking", "TextSemanticChunking",
                     "MediaSlidingWindowChunking", "MediaSemanticChunking"}

ArgsOf(class) ==
    IF class \in SlidingClasses
    THEN [size : -1..MaxParam, window : -1..MaxParam]
    ELSE IF class \in SemanticClasses
    THEN [min : -1..MaxParam, max : -1..MaxParam,
          factor : -1..(FactorDenominator + 1)]
    ELSE {[none |-> 0]}

CfgInit ==
    /\ strategy_class \in StrategyClasses
    /\ strategy_args \in ArgsOf(strategy_class)
    /\ chunking_strategy = <<>>
    /\ content_category \in {"text", "media"}
    /\ produced_chunks = 0
    /\ external_calls = 0
    /\ gpc = "construct"

\* strategy = Class(args): the arguments are checked against the class's
\* restrictions; the object holds the arguments as given.
Construct ==
    /\ gpc = "construct"
    /\ IF Accepted(strategy_class, strategy_args)
       THEN /\ chunking_strategy' = [class |-> strategy_class, args |-> strategy_args]
            /\ gpc' = "constructed"
       ELSE /\ UNCHANGED chunking_strategy
            /\ gpc' = "ConfigurationError"
    /\ UNCHANGED <<strategy_class, strategy_args, content_category,
                   produced_chunks, external_calls>>
    /\ UNCHANGED cfgFrame

\* generate_content(content, questions, chunking_strategy, ...): the
\* strategy is matched against the input category before anything else.
Dispatch ==
    /\ gpc = "constructed"
    /\ gpc' = IF Supported(content_category, chunking_strategy.class)
              THEN "dispatched" ELSE "NotImplementedError"
    /\ UNCHANGED <<strategy_class, strategy_args, chunking_strategy,
                   content_category, produced_chunks, external_calls>>
    /\ UNCHANGED cfgFrame

\* The engine produces the chunks.  A text sliding window runs the sliding
\* window sample on a text of MaxLen characters (a step of 0 is a division
\* by zero there); the other strategies produce one chunk or more.
ProduceChunks ==
    /\ gpc = "dispatched"
    /\ IF chunking_strategy.class = "TextSlidingWindowChunking"
       THEN IF chunking_strategy.args.size = chunking_strategy.args.window
            THEN /\ gpc' = "ZeroDivisionError"
                 /\ UNCHANGED produced_chunks
            ELSE /\ produced_chunks' =
                        SlidingChunkCount(Text(MaxLen), chunking_strategy.args.size,
                                          chunking_strategy.args.window)
                 /\ gpc' = "chunked"
       ELSE /\ produced_chunks' \in 1..2
            /\ gpc' = "chunked"
    /\ UNCHANGED <<strategy_class, strategy_args, chunking_strategy,
                   content_category, external_calls>>
    /\ UNCHANGED cfgFrame

\* The first external call for the produced chunks.
FirstExternalCall ==
    /\ gpc = "chunked"
    /\ external_calls' = 1
    /\ gpc' = "called"
    /\ UNCHANGED <<strategy_class, strategy_args, chunking_strategy,
                   content_category, produced_chunks>>
    /\ UNCHANGED cfgFrame

CfgNext ==
    \/ Construct
    \/ Dispatch
    \/ ProduceChunks
    \/ FirstExternalCall

InitCfg == CoreIdle /\ ConcIdle /\ SemIdle /\ CfgInit /\ RouteIdle /\ MoreIdle

SpecCfg == InitCfg /\ [][CfgNext]_vars

(***************************************************************************)
(* Chunk-routing semantic batching (docs/concepts/other_techniques.md      *)
(* 160-175), followed by the split of oversized buckets.                   *)
(***************************************************************************)
\* Variant of ArgMax that returns the last position of the maximum.
ArgMax_Last(xs) ==
    (CHOOSE k \in 1..Len(xs) :
        /\ \A j \in 1..Len(xs) : xs[j] <= xs[k]
        /\ \A j \in (k + 1)..Len(xs) : xs[j] < xs[k]) - 1

\* np.argmax(xs): the 0-based position of the first occurrence of the
\* maximum of a non-empty array.
ArgMax(xs) ==
    (CHOOSE k \in 1..Len(xs) :
        /\ \A j \in 1..Len(xs) : xs[j] <= xs[k]
        /\ \A j \in 1..(k - 1) : xs[j] < xs[k]) - 1

\* Fixed batching of a question list: consecutive groups of size questions,
\* the last one holding what is left.
FixedBatches(qs, size) ==
    [n \in 1..PyCeilDiv(Len(qs), size) |->
        PySlice(qs, (n - 1) * size, Min(n * size, Len(qs)))]

\* Variant of SplitBucket that sends every bucket as one batch.
SplitBucket_Whole(bucket, size) == <<bucket>>

\* The batches sent for a bucket: a bucket larger than batch_size is
\* subdivided by fixed batching, any other bucket is one batch.
SplitBucket(bucket, size) ==
    IF Len(bucket) > size THEN FixedBatches(bucket, size) ELSE <<bucket>>

\* The chunks come from a chunking sample, which always yields at least one.
RouteInit ==
    /\ route_chunks \in 1..MaxRouteChunks
    /\ \E m \in 0..MaxRouteQuestions : route_questions = QuestionList(m)
    /\ batch_size \in 1..MaxBatchSize
    /\ chunk_similarity = <<>>
    /\ most_similar_chunk = 0
    /\ question_batches = <<>>
    /\ route_i = 0
    /\ routed_batches = <<>>
    /\ rpc = "start"

\* question_batches = [[] for _ in range(len(content_chunks))]
RouteBegin ==
    /\ rpc = "start"
    /\ question_batches' = [c \in 1..route_chunks |-> <<>>]
    /\ route_i' = 0
    /\ rpc' = "routing"
    /\ UNCHANGED <<route_chunks, route_questions, chunk_similarity,
                   most_similar_chunk, batch_size, routed_batches>>
    /\ UNCHANGED routeFrame

\* One iteration of for i in range(len(question_embeddings)): the
\* similarity of question i to each chunk is whatever the embedding model
\* makes it.
RouteStep ==
    /\ rpc = "routing"
    /\ route_i < Len(route_questions)
    /\ \E sims \in [1..route_chunks -> 0..MaxSim] :
           /\ chunk_similarity' = sims
           /\ most_similar_chunk' = ArgMax(sims)
           /\ question_batches' =
                  [question_batches EXCEPT ![ArgMax(sims) + 1] =
                      Append(@, route_questions[route_i + 1])]
    /\ route_i' = route_i + 1
    /\ UNCHANGED <<route_chunks, route_questions, batch_size, routed_batches, rpc>>
    /\ UNCHANGED routeFrame

\* The loop ends.
RouteEnd ==
    /\ rpc = "routing"
    /\ route_i >= Len(route_questions)
    /\ rpc' = "routed"
    /\ UNCHANGED <<route_chunks, route_questions, chunk_similarity,
                   most_similar_chunk, question_batches, route_i, batch_size,
                   routed_batches>>
    /\ UNCHANGED routeFrame

\* Every bucket is turned into the batches sent for it.
RouteSplit ==
    /\ rpc = "routed"
    /\ routed_batches' =
           [c \in 1..route_chunks |-> SplitBucket(question_batches[c], batch_size)]
    /\ rpc' = "done"
    /\ UNCHANGED <<route_chunks, route_questions, chunk_similarity,
                   most_similar_chunk, question_batches, route_i, batch_size>>
    /\ UNCHANGED routeFrame

RouteNext ==
    \/ RouteBegin
    \/ RouteStep
    \/ RouteEnd
    \/ RouteSplit

InitRoute == CoreIdle /\ ConcIdle /\ SemIdle /\ CfgIdle /\ RouteInit /\ MoreIdle

SpecRoute == InitRoute /\ [][RouteNext]_vars

(***************************************************************************)
(* The engine outside token-aware and chunk-routing modes: it forms the    *)
(* cross product of the chunks and the batches, issues one external call   *)
(* per (chunk, batch) pair and hands each result to the aggregator as the  *)
(* call completes.  gemini_batcher.py is not in src/; the engine is        *)
(* modelled from spec.md sections 2, 3 and 5.  Calls are issued in the     *)
(* order of the cross product and complete in any order.                   *)
(***************************************************************************)

\* Variant of EnginePairs that leaves out the last pair.
EnginePairs_SkipLast(n, m) ==
    [k \in 1..(n * m - 1) |-> <<((k - 1) \div m) + 1, ((k - 1) % m) + 1>>]

\* The cross product of n chunks and m batches: chunk by chunk, batch by batch.
EnginePairs(n, m) ==
    [k \in 1..(n * m) |-> <<((k - 1) \div m) + 1, ((k - 1) % m) + 1>>]

EngInit ==
    /\ eng_chunks \in 0..MaxEngChunks
    /\ eng_batches \in 0..MaxEngBatches
    /\ eng_todo = EnginePairs(eng_chunks, eng_batches)
    /\ eng_in_flight = {}
    /\ eng_issued = [p \in (1..eng_chunks) \X (1..eng_batches) |-> 0]
    /\ eng_merges = [p \in (1..eng_chunks) \X (1..eng_batches) |-> 0]
    /\ epc = "run"

\* The external call for the next pair is issued.
IssueCall ==
    /\ epc = "run"
    /\ eng_todo # <<>>
    /\ eng_issued' = [eng_issued EXCEPT ![Head(eng_todo)] = @ + 1]
    /\ eng_in_flight' = eng_in_flight \cup {Head(eng_todo)}
    /\ eng_todo' = Tail(eng_todo)
    /\ UNCHANGED <<eng_chunks, eng_batches, eng_merges, epc>>
    /\ UNCHANGED engFrame

\* The call for a pair completes and its result is merged.
CompleteCall(pair) ==
    /\ epc = "run"
    /\ pair \in eng_in_flight
    /\ eng_merges' = [eng_merges EXCEPT ![pair] = @ + 1]
    /\ eng_in_flight' = eng_in_flight \ {pair}
    /\ UNCHANGED <<eng_chunks, eng_batches, eng_todo, eng_issued, epc>>
    /\ UNCHANGED engFrame

CompleteSome == \E pair \in eng_in_flight : CompleteCall(pair)

\* Every pair has been called and merged: the response is finalized.
EngFinish ==
    /\ epc = "run"
    /\ eng_todo = <<>>
    /\ eng_in_flight = {}
    /\ epc' = "done"
    /\ UNCHANGED <<eng_chunks, eng_batches, eng_todo, eng_in_flight, eng_issued,
                   eng_merges>>
    /\ UNCHANGED engFrame

EngNext ==
    \/ IssueCall
    \/ CompleteSome
    \/ EngFinish

InitEngine == CoreIdle /\ ConcIdle /\ SemIdle /\ CfgIdle /\ RouteIdle /\ EngInit /\ UpIdle

SpecEngine == InitEngine /\ [][EngNext]_vars

(***************************************************************************)
(* Sentence splitting in front of semantic chunking                        *)
(* (docs/concepts/other_techniques.md 110-152).  The content is a sequence *)
(* of characters over a word character, a sentence terminator and a space; *)
(* a sentence is the sequence of its characters.                           *)
(***************************************************************************)
SegAlphabet == {"a", ".", " "}

SegTexts == UNION {[1..n -> SegAlphabet] : n \in 0..MaxText}

\* \s
IsSpace(ch) == ch \in {" ", "\t", "\n"}

\* [.!?]
IsTerminator(ch) == ch \in {".", "!", "?"}

\* The index after the run of whitespace that starts at index i (1-based).
RECURSIVE RunEnd(_, _)
RunEnd(text, i) ==
    IF i <= Len(text) /\ IsSpace(text[i]) THEN RunEnd(text, i + 1) ELSE i

\* re.split from index i on, with the part collected so far and the parts
\* already cut: the pattern (?<=[.!?])\s+ matches a whole run of whitespace
\* that directly follows a terminator; the text after the last match is the
\* last part, empty or not.
RECURSIVE SplitFrom(_, _, _, _)
SplitFrom(text, i, part, parts) ==
    IF i > Len(text) THEN Append(parts, part)
    ELSE IF IsSpace(text[i]) /\ i > 1 /\ IsTerminator(text[i - 1])
         THEN SplitFrom(text, RunEnd(text, i), <<>>, Append(parts, part))
         ELSE SplitFrom(text, i + 1, Append(part, text[i]), parts)

\* re.split(r'(?<=[.!?])\s+', content)
ReSplit(text) == SplitFrom(text, 1, <<>>, <<>>)

\* sentence.strip()
RECURSIVE Strip(_)
Strip(s) ==
    IF s = <<>> THEN s
    ELSE IF IsSpace(Head(s)) THEN Strip(Tail(s))
    ELSE IF IsSpace(s[Len(s)]) THEN Strip(SubSeq(s, 1, Len(s) - 1))
    ELSE s

SegInit ==
    /\ content \in SegTexts
    /\ chunk_char_size = 1 /\ window_char_size = 0 /\ chunk_count = 0
    /\ chunk_i = 0 /\ chunked_content = <<>> /\ cpc = "idle"
    /\ sentences = <<>>
    /\ similarities = <<>>
    /\ min_sentences_per_chunk \in 1..MaxMin
    /\ max_sentences_per_chunk \in (min_sentences_per_chunk + 1)..(MaxMin + 1)
    /\ threshold_factor \in 0..FactorDenominator
    /\ boundaries = <<>>
    /\ current_chunk_start_pos = 0
    /\ sem_i = 0
    /\ content_chunks = <<>>
    /\ spc = "split"

\* sentences = re.split(r'(?<=[.!?])\s+', content)
SegSplit ==
    /\ spc = "split"
    /\ sentences' = ReSplit(content)
    /\ spc' = "strip"
    /\ UNCHANGED <<similarities, min_sentences_per_chunk, max_sentences_per_chunk,
                   threshold_factor, boundaries, current_chunk_start_pos, sem_i,
                   content_chunks>>
    /\ UNCHANGED semFrame

\* sentences = [sentence.strip() for sentence in sentences]
SegStrip ==
    /\ spc = "strip"
    /\ sentences' = [k \in 1..Len(sentences) |-> Strip(sentences[k])]
    /\ spc' = "encode"
    /\ UNCHANGED <<similarities, min_sentences_per_chunk, max_sentences_per_chunk,
                   threshold_factor, boundaries, current_chunk_start_pos, sem_i,
                   content_chunks>>
    /\ UNCHANGED semFrame

\* The sentences are encoded and the similarity of each adjacent pair is
\* computed (lines 114-126): one level per pair, whatever the model gives.
SegEncode ==
    /\ spc = "encode"
    /\ similarities' \in [1..(Len(sentences) - 1) -> 0..MaxSim]
    /\ spc' = "start"
    /\ UNCHANGED <<sentences, min_sentences_per_chunk, max_sentences_per_chunk,
                   threshold_factor, boundaries, current_chunk_start_pos, sem_i,
                   content_chunks>>
    /\ UNCHANGED semFrame

SegNext ==
    \/ SegSplit
    \/ SegStrip
    \/ SegEncode
    \/ SemBegin
    \/ SemBoundaryStep
    \/ SemEndPoint
    \/ SemChunkStep
    \/ SemEnd

InitSeg ==
    /\ SegInit /\ BatchIdle /\ TAIdle /\ AggIdle
    /\ ConcIdle /\ CfgIdle /\ RouteIdle /\ MoreIdle

SpecSeg == InitSeg /\ [][SegNext]_vars

(***************************************************************************)
(* The upload of a media chunk and the wait for it to become available     *)
(* (docs/concepts/multimedia.md 38-53).  The file's state on the server    *)
(* moves on by itself; uploaded_file is the object the upload returned.    *)
(***************************************************************************)
FileStates == {"PENDING", "PROCESSING", "ACTIVE", "FAILED"}

\* uploaded_file.state.name == "PROCESSING" or uploaded_file.state.name == "PENDING"
StillUploading(state_name) == state_name = "PROCESSING" \/ state_name = "PENDING"

\* The sample never assigns `filepath`, the name its log line reads: the
\* name is unbound (the read raises NameError) or bound by earlier code.
UpInit ==
    /\ uploaded_file = ""
    /\ server_state = ""
    /\ filepath \in BOOLEAN
    /\ polls = 0
    /\ upc = "upload"

\* uploaded_file = client.files.upload(file=chunked_files[0])
Upload ==
    /\ upc = "upload"
    /\ \E state_name \in FileStates :
           /\ uploaded_file' = state_name
           /\ server_state' = state_name
    /\ upc' = "wait"
    /\ UNCHANGED <<filepath, polls>>
    /\ UNCHANGED upFrame

\* The server moves the file on: a pending file is processed, a processed
\* file becomes active or fails.
ServerProgress ==
    /\ upc = "wait"
    /\ \/ server_state = "PENDING" /\ server_state' = "PROCESSING"
       \/ server_state = "PROCESSING" /\ server_state' \in {"ACTIVE", "FAILED"}
    /\ UNCHANGED <<uploaded_file, filepath, polls, upc>>
    /\ UNCHANGED upFrame

\* One iteration of the while loop: the log line, then time.sleep(5).  The
\* model follows at most MaxPolls iterations; the loop itself has no bound.
WaitIteration ==
    /\ upc = "wait"
    /\ StillUploading(uploaded_file)
    /\ polls < MaxPolls
    /\ IF filepath
       THEN /\ polls' = polls + 1
            /\ UNCHANGED upc
       ELSE /\ upc' = "NameError"
            /\ UNCHANGED polls
    /\ UNCHANGED <<uploaded_file, server_state, filepath>>
    /\ UNCHANGED upFrame

\* The while condition fails; the file is used in the generate_content call.
WaitOver ==
    /\ upc = "wait"
    /\ ~StillUploading(uploaded_file)
    /\ upc' = "generate"
    /\ UNCHANGED <<uploaded_file, server_state, filepath, polls>>
    /\ UNCHANGED upFrame

UpNext ==
    \/ Upload
    \/ ServerProgress
    \/ WaitIteration
    \/ WaitOver

InitUpload == CoreIdle /\ ConcIdle /\ SemIdle /\ CfgIdle /\ RouteIdle /\ EngIdle /\ UpInit

SpecUpload == InitUpload /\ [][UpNext]_vars

(***************************************************************************)
(* Properties of the chunking samples.                                     *)
(***************************************************************************)
Texts(chunks) == [k \in 1..Len(chunks) |-> chunks[k].text]

\* The character positions (0-based) a chunk holds.
Positions(ch) == {p \in 0..MaxLen + 1 : ch.start <= p /\ p < ch.end}

\* The number of characters chunks k and k+1 have in common.
Shared(chunks, k) == Cardinality(Positions(chunks[k]) \cap Positions(chunks[k + 1]))

\* ceil(n / c) as the least k with k * c >= n.
CeilOf(n, c) == CHOOSE k \in 0..n : k * c >= n /\ \A j \in 0..(k - 1) : j * c < n

\* C1: fixed chunking of a content of length L with chunk_char_size c gives
\* exactly ceil(L/c) chunks, each of length <= c, whose concatenation in
\* order is the content.
C1_FixedChunking ==
    cpc = "fixed_done" =>
        /\ Len(chunked_content) = CeilOf(Len(content), chunk_char_size)
        /\ \A k \in 1..Len(chunked_content) :
               Len(chunked_content[k].text) <= chunk_char_size
        /\ Flatten(Texts(chunked_content)) = content

C1_Witness ==
    /\ cpc = "fixed_done"
    /\ Len(chunked_content) >= 3
    /\ Len(content) % chunk_char_size # 0

Covered(chunks, text) ==
    \A p \in 0..(Len(text) - 1) : \E k \in 1..Len(chunks) : p \in Positions(chunks[k])

\* C2 as stated: with c > w >= 0, every pair of adjacent sliding-window chunks
\* other than the final pair shares exactly w characters, and every character
\* position of the content lies in at least one chunk.
C2_AsStated ==
    cpc = "sliding_done" =>
        /\ \A k \in 1..(Len(chunked_content) - 2) :
               Shared(chunked_content, k) = window_char_size
        /\ Covered(chunked_content, content)

\* C2 as amended: every pair of adjacent chunks whose first chunk is a full
\* chunk_char_size long shares exactly w characters, no adjacent pair shares
\* more than w, and every character position lies in at least one chunk.
\* (A pair whose first chunk is cut short by the end of the content shares
\* fewer; when w > c - w several trailing pairs are of that kind.)
C2_SlidingOverlap ==
    cpc = "sliding_done" =>
        /\ \A k \in 1..(Len(chunked_content) - 1) :
               /\ Len(chunked_content[k].text) = chunk_char_size
                      => Shared(chunked_content, k) = window_char_size
               /\ Shared(chunked_content, k) <= window_char_size
        /\ Covered(chunked_content, content)

\* A run in which a pair that is not the final one has a first chunk cut
\* short, next to pairs with the full overlap.
C2_Witness ==
    /\ cpc = "sliding_done"
    /\ window_char_size >= 1
    /\ Len(chunked_content) >= 3
    /\ Len(chunked_content[1].text) = chunk_char_size
    /\ \E k \in 1..(Len(chunked_content) - 2) :
           Len(chunked_content[k].text) < chunk_char_size

(***************************************************************************)
(* Properties of the batching sample.                                      *)
(***************************************************************************)
\* The questions a batch string holds: its elements other than the separator.
QuestionsOf(batch) == SelectSeq(batch, LAMBDA x : x # "\n")

BatchQuestions(batches) == [k \in 1..Len(batches) |-> QuestionsOf(batches[k])]

BatchSizes(batches) == [k \in 1..Len(batches) |-> Len(QuestionsOf(batches[k]))]

\* C7: for every question list and batch size b > 0 the batches are contiguous
\* groups that partition the list: each has between 1 and b questions and
\* their concatenation in order is the list; 12 questions with b = 5 give
\* batches of sizes 5, 5, 2.
C7_FixedBatching ==
    bpc # "batching" /\ bpc # "idle" =>
        /\ Flatten(BatchQuestions(batched_questions)) = questions
        /\ \A k \in 1..Len(batched_questions) :
               /\ BatchSizes(batched_questions)[k] >= 1
               /\ BatchSizes(batched_questions)[k] <= questions_per_batch
        /\ (Len(questions) = 12 /\ questions_per_batch = 5)
               => BatchSizes(batched_questions) = <<5, 5, 2>>

(***************************************************************************)
(* Properties of the token-aware loop.                                     *)
(***************************************************************************)
\* The items an iteration appended to the queue: what follows the items that
\* were already waiting behind the dequeued one.
Enqueued == SubSeq(queue', Len(queue), Len(queue'))

KeepsWaiting == SubSeq(queue', 1, Len(queue) - 1) = Tail(queue)

\* Two slices that are the halves of s: together s, cut at its midpoint.
Halves(a, b, s) == a \o b = s /\ Len(a) - Len(b) \in {-1, 0, 1}

\* An iteration on an item whose counted input tokens exceed the limit.
IterationOverLimit ==
    /\ tpc = "loop" /\ queue # <<>>
    /\ InputTooLarge(Head(queue), input_token_limit)

\* An iteration whose generation call ended with MAX_TOKENS.
IterationTruncated ==
    /\ tpc = "loop" /\ queue # <<>>
    /\ gen_calls' = gen_calls + 1
    /\ reponse' = "MAX_TOKENS"

\* C3: when the dequeued item's counted input tokens exceed the input limit,
\* no generation call is issued for it and exactly two items are enqueued,
\* whose content slices are the two halves of the item's content (together
\* equal to it, cut at its midpoint), each with the unchanged question subset.
C3_InputTooLargeBisects ==
    [][ IterationOverLimit =>
          /\ gen_calls' = gen_calls
          /\ KeepsWaiting
          /\ Len(Enqueued) = 2
          /\ Halves(Enqueued[1].content, Enqueued[2].content, Head(queue).content)
          /\ Enqueued[1].questions = Head(queue).questions
          /\ Enqueued[2].questions = Head(queue).questions ]_vars

\* C4: when a generation call ends with the output-truncation reason, its
\* partial answer is not recorded and exactly two items are enqueued, whose
\* question subsets are the two halves of the item's question subset (every
\* question in exactly one half, in order, nothing else added), each with
\* the unchanged content slice.
C4_TruncatedBisectsQuestions ==
    [][ IterationTruncated =>
          /\ valid_items' = valid_items
          /\ KeepsWaiting
          /\ Len(Enqueued) = 2
          /\ Enqueued[1].questions \o Enqueued[2].questions = Head(queue).questions
          /\ Enqueued[1].content = Head(queue).content
          /\ Enqueued[2].content = Head(queue).content ]_vars

\* The example of C5: the whole content is over the input limit, each of the
\* two slices of its bisection is within it, and no call is truncated.
C5_Scenario ==
    /\ tpc # "idle"
    /\ InputTooLarge(Item(content, questions), input_token_limit)
    /\ \A k \in 1..2 :
           ~InputTooLarge(SplitContent(Item(content, questions))[k], input_token_limit)
    /\ truncated_calls = 0

\* C5: in that example the loop issues exactly 2 generation calls, and the
\* two recorded answer sets (one per content slice) together hold every
\* original question exactly once per slice.
C5_TwoCallsExample ==
    C5_Scenario =>
        /\ gen_calls <= 2
        /\ tpc \in {"done", "NameError"} =>
               /\ gen_calls = 2
               /\ Len(valid_items) = 2
               /\ valid_items[1].item.content \o valid_items[2].item.content = content
               /\ valid_items[1].item.questions = questions
               /\ valid_items[2].item.questions = questions

\* C6: an item that cannot be bisected further and still fails (one character
\* of content over the input limit, or one question whose call is truncated)
\* is not enqueued again; the items waiting behind it stay queued and the
\* answers already recorded stay recorded.
C6_UnsplittableNotRequeued ==
    [][ /\ (IterationOverLimit /\ Len(Head(queue).content) = 1)
            => /\ \A k \in 1..Len(Enqueued) : Enqueued[k] # Head(queue)
               /\ KeepsWaiting
               /\ valid_items' = valid_items
        /\ (IterationTruncated /\ Len(Head(queue).questions) = 1)
            => /\ \A k \in 1..Len(Enqueued) : Enqueued[k] # Head(queue)
               /\ KeepsWaiting
               /\ valid_items' = valid_items ]_vars

(***************************************************************************)
(* Properties of the aggregator.                                           *)
(***************************************************************************)
MergedPairs == {p \in Pairs : calls[p].state = "merged"}

\* The answers recorded by merging the results of the given pairs one after
\* the other in submission order.
RECURSIVE MergeInOrder(_, _)
MergeInOrder(order, pairs) ==
    IF order = <<>> THEN {}
    ELSE LET front == SubSeq(order, 1, Len(order) - 1)
             last == order[Len(order)]
         IN  IF last \in pairs
             THEN MergeAnswers(MergeInOrder(front, pairs), last,
                               QuestionIndices(last[2]), Answers(last))
             ELSE MergeInOrder(front, pairs)

NeverMerged ==
    {q \in 1..NQuestions :
        \A p \in MergedPairs :
            \A k \in 1..Len(QuestionIndices(p[2])) : QuestionIndices(p[2])[k] # q}

\* C9: finalize returns the answers ordered by original question index, and
\* every question index that was never merged is reported as a data-integrity
\* error while the partial Response is still returned.
C9_FinalizeReportsMissing ==
    finalized =>
        /\ \A k \in 1..(Len(returned.content) - 1) :
               returned.content[k].question < returned.content[k + 1].question
        /\ integrity_errors = NeverMerged
        /\ {returned.content[k].question : k \in 1..Len(returned.content)}
               = (1..NQuestions) \ NeverMerged

\* A partial Response: some questions answered, some reported missing.
C9_Witness ==
    /\ finalized
    /\ integrity_errors # {}
    /\ Len(returned.content) >= 1

\* The sum of f[p] over the elements p of a finite set S.
RECURSIVE SumOver(_, _)
SumOver(S, f) ==
    IF S = {} THEN 0
    ELSE LET p == CHOOSE x \in S : TRUE IN f[p] + SumOver(S \ {p}, f)

\* C10: after any sequence of merges the Response's input-token counter is
\* the sum of the input-token counts of all merged calls and its output-token
\* counter the sum of their output-token counts.
C10_TokenCountersAreSums ==
    LET PromptOf == [p \in Pairs |-> calls[p].prompt_token_count]
        CandidatesOf == [p \in Pairs |-> calls[p].candidates_token_count]
    IN  /\ resp_input_tokens = SumOver(MergedPairs, PromptOf)
        /\ resp_output_tokens = SumOver(MergedPairs, CandidatesOf)

\* Three calls merged, not all with the same usage.
C10_Witness ==
    /\ Cardinality(MergedPairs) >= 3
    /\ \E p, r \in MergedPairs : calls[p].prompt_token_count # calls[r].prompt_token_count

\* A step in which merge is called for a pair that was merged before.
RepeatedMerge == dup_merges' = dup_merges + 1

\* What the first merges recorded is left as it was.
RecordedUnchanged ==
    /\ resp_content' = resp_content
    /\ resp_input_tokens' = resp_input_tokens
    /\ resp_output_tokens' = resp_output_tokens

\* The step reports one caller error.
ReportsCallerError == caller_errors' = caller_errors + 1

TimesQueued(i) == Cardinality({k \in 1..Len(work_queue) : work_queue[k] = i})

\* Every worker is between items and the queue is empty.
Quiescent == work_queue = <<>> /\ \A w \in Workers : wpc[w] = "idle"

\* C12: under every interleaving of the workers' dequeue, enqueue and merge
\* steps no update is lost: every enqueued item is on the queue once or was
\* dequeued once (never both, never twice), the aggregator holds the answers
\* and the summed token counts of exactly the calls whose merge finished,
\* and once the pool is quiescent every enqueued item was dequeued exactly
\* once and every completed call is in the aggregator.
C12_NoUpdateLost ==
    /\ \A i \in Items :
           TimesQueued(i) + dequeued[i] = (IF i \in enqueued THEN 1 ELSE 0)
    /\ pool_answers = merged
    /\ pool_tokens = SumOver(merged, completed)
    /\ Quiescent =>
           /\ \A i \in enqueued : dequeued[i] = 1
           /\ merged = {i \in Items : completed[i] > 0}
           /\ \A i \in enqueued : i \in merged \/ (Splittable(i) /\ 2 * i \in enqueued)

\* Two workers have completed calls at the same time; one is inside merge
\* while the other waits to enter, and an earlier item was bisected.
C12_Witness ==
    \E w1, w2 \in Workers :
        /\ wpc[w1] = "merge"
        /\ wpc[w2] = "answered"
        /\ wlocal[w1].item # wlocal[w2].item
        /\ dequeued[1] = 1

(***************************************************************************)
(* Properties of semantic chunking.                                        *)
(***************************************************************************)
\* The sentences of a chunk text, without the separators the join put in.
SentencesOf(chunk) == SelectSeq(chunk, LAMBDA x : x # " ")

\* C13: every produced chunk other than the last holds at least
\* min_sentences_per_chunk and at most max_sentences_per_chunk sentences, and
\* the last chunk holds at most max_sentences_per_chunk.
C13_SemanticChunkSizes ==
    spc = "done" =>
        /\ \A k \in 1..(Len(content_chunks) - 1) :
               /\ Len(SentencesOf(content_chunks[k])) >= min_sentences_per_chunk
               /\ Len(SentencesOf(content_chunks[k])) <= max_sentences_per_chunk
        /\ Len(content_chunks) >= 1
        /\ Len(SentencesOf(content_chunks[Len(content_chunks)]))
               <= max_sentences_per_chunk

\* A run with a chunk closed at the maximum and a last chunk below the
\* minimum.
C13_Witness ==
    /\ spc = "done"
    /\ Len(content_chunks) >= 2
    /\ \E k \in 1..(Len(content_chunks) - 1) :
           Len(SentencesOf(content_chunks[k])) = max_sentences_per_chunk
    /\ Len(SentencesOf(content_chunks[Len(content_chunks)])) < min_sentences_per_chunk

\* C14: the boundaries rise strictly from 0 to the number of sentences, no
\* chunk is empty, and the chunks' sentences, in order, are the sentence
\* sequence: every sentence is in exactly one chunk.
C14_SemanticPartition ==
    spc = "done" =>
        /\ boundaries[1] = 0
        /\ boundaries[Len(boundaries)] = Len(sentences)
        /\ \A k \in 1..(Len(boundaries) - 1) : boundaries[k] < boundaries[k + 1]
        /\ Len(content_chunks) = Len(boundaries) - 1
        /\ \A k \in 1..Len(content_chunks) : SentencesOf(content_chunks[k]) # <<>>
        /\ Flatten([k \in 1..Len(content_chunks) |-> SentencesOf(content_chunks[k])])
               = sentences

\* A run of several chunks whose end point was added after the loop.
C14_Witness ==
    /\ spc = "done"
    /\ Len(content_chunks) >= 2
    /\ Len(sentences) - boundaries[Len(boundaries) - 1] >= 2

(***************************************************************************)
(* Properties of strategy construction and dispatch.                       *)
(***************************************************************************)
\* The constructor has run.
Decided == gpc # "construct"

C16_SemanticConfig ==
    (strategy_class \in SemanticClasses /\ Decided) =>
        /\ (\/ strategy_args.max <= strategy_args.min
            \/ strategy_args.min <= 0
            \/ strategy_args.factor < 0
            \/ strategy_args.factor > FactorDenominator)
               => gpc = "ConfigurationError" /\ chunking_strategy = <<>>
        /\ chunking_strategy # <<>> => chunking_strategy.args = strategy_args

\* A media chunking strategy on a text input, or the text token-aware
\* strategy on a media input.
Mismatched ==
    \/ /\ content_category = "text"
       /\ strategy_class \in {"MediaSlidingWindowChunking", "MediaSemanticChunking"}
    \/ /\ content_category = "media"
       /\ strategy_class = "TextTokenAwareChunkingAndBatching"

\* C19: a strategy the content's input category does not support ends
\* generate_content in NotImplementedError before any chunk is produced or
\* any external call is made; chunks and calls exist only for supported
\* pairings.
C19_DispatchFailsFast ==
    /\ (gpc \notin {"construct", "constructed", "ConfigurationError"}
        /\ Mismatched)
           => gpc = "NotImplementedError"
    /\ gpc = "NotImplementedError" => produced_chunks = 0 /\ external_calls = 0
    /\ (produced_chunks > 0 \/ external_calls > 0) => ~Mismatched

C19_Witness ==
    /\ gpc = "NotImplementedError"
    /\ content_category = "text"
    /\ strategy_class = "MediaSlidingWindowChunking"

(***************************************************************************)
(* Properties of chunk-routing semantic batching.                          *)
(***************************************************************************)
\* The position of question q in the question list.
IndexOf(q) == CHOOSE n \in 1..Len(route_questions) : route_questions[n] = q

\* The buckets (1-based) that hold question q.
BucketsOf(q) ==
    {c \in 1..Len(question_batches) :
        \E n \in 1..Len(question_batches[c]) : question_batches[c][n] = q}

\* The bucket the question routed last belongs in: the lowest chunk whose
\* similarity to it is the maximum.
BestChunk ==
    CHOOSE c \in 1..route_chunks :
        /\ \A d \in 1..route_chunks : chunk_similarity[d] <= chunk_similarity[c]
        /\ \A d \in 1..route_chunks :
               chunk_similarity[d] = chunk_similarity[c] => c <= d

\* C17: there is one bucket per chunk; every question routed so far is in
\* exactly one bucket, once; the question routed last is in the bucket of
\* the chunk most similar to it, the lowest such chunk on a tie; and inside
\* a bucket the questions keep their original relative order.
C17_ChunkRouting ==
    rpc \in {"routing", "routed", "done"} =>
        /\ Len(question_batches) = route_chunks
        /\ \A n \in 1..Len(route_questions) :
               Cardinality(BucketsOf(route_questions[n])) = (IF n <= route_i THEN 1 ELSE 0)
        /\ SumSeq([c \in 1..route_chunks |-> Len(question_batches[c])]) = route_i
        /\ route_i > 0 =>
               /\ BucketsOf(route_questions[route_i]) = {BestChunk}
               /\ most_similar_chunk + 1 = BestChunk
        /\ \A c \in 1..route_chunks :
               \A a, b \in 1..Len(question_batches[c]) :
                   a < b => IndexOf(question_batches[c][a]) < IndexOf(question_batches[c][b])

\* All questions are routed, the last one on a tie between two chunks, and a
\* bucket is empty.
C17_Witness ==
    /\ rpc = "routed"
    /\ route_i >= 2
    /\ route_chunks >= 2
    /\ chunk_similarity[1] = chunk_similarity[2]
    /\ \E c \in 1..route_chunks : question_batches[c] = <<>>
    /\ \E c \in 1..route_chunks : Len(question_batches[c]) >= 2

WellFormedChunks(chunks, length, overlap) ==
    /\ Len(chunks) >= 1
    /\ \A k \in 1..Len(chunks) : chunks[k].end > chunks[k].start
    /\ chunks[Len(chunks)].end = length
    /\ overlap = 0 =>
           \A k \in 1..(Len(chunks) - 1) : chunks[k + 1].start = chunks[k].end

\* The position of sentence x in the sentence list.
SentenceIndex(x) == CHOOSE n \in 1..Len(sentences) : sentences[n] = x

\* The span of a semantic chunk, in sentences: from before its first
\* sentence to after its last.
SemSpan(chunk) ==
    LET ss == SentencesOf(chunk)
    IN  [start |-> SentenceIndex(ss[1]) - 1, end |-> SentenceIndex(ss[Len(ss)])]

SlidingSpan(i, step, c, length) ==
    [start |-> i * step,
     end   |-> IF i * step + c <= length THEN i * step + c ELSE length]

\* C21: with step = chunk_char_size - window_char_size, sliding-window
\* chunking produces ceil(length / step) chunks, and chunk i (counting from
\* zero) spans exactly [i*step, min(i*step + chunk_char_size, length)).
C21_SlidingArithmetic ==
    cpc = "sliding_done" =>
        LET step == chunk_char_size - window_char_size
            length == Len(content)
        IN  /\ Len(chunked_content) = CeilOf(length, step)
            /\ \A i \in 0..(CeilOf(length, step) - 1) :
                   /\ chunked_content[i + 1].start =
                          SlidingSpan(i, step, chunk_char_size, length).start
                   /\ chunked_content[i + 1].end =
                          SlidingSpan(i, step, chunk_char_size, length).end

\* A finished run with an overlap in which some chunk is cut short by the
\* end of the content and some chunk is not.
C21_Witness ==
    /\ cpc = "sliding_done"
    /\ window_char_size > 0
    /\ Len(chunked_content) >= 3
    /\ \E k \in 1..Len(chunked_content) :
           chunked_content[k].end - chunked_content[k].start = chunk_char_size
    /\ \E k \in 1..Len(chunked_content) :
           /\ chunked_content[k].end = Len(content)
           /\ chunked_content[k].end - chunked_content[k].start < chunk_char_size

(***************************************************************************)
(* The worked sliding-window example.                                      *)
(***************************************************************************)

\* The start/end pairs of a list of chunks.
Spans(chunks) == [k \in 1..Len(chunks) |-> <<chunks[k].start, chunks[k].end>>]

\* The sample has finished on the whole example content.
ExampleDone == cpc = "sliding_done" /\ content = ExampleContent

\* C22 as stated: for the example content with chunk_char_size = 30 and
\* window_char_size = 10 the chunks are exactly [0,30), [20,50), [40,60).
C22_AsStated ==
    ExampleDone => Spans(chunked_content) = <<<<0, 30>>, <<20, 50>>, <<40, 60>>>>

\* C22 as amended: the example content is 58 characters long, so the chunks
\* are exactly [0,30), [20,50), [40,58); each chunk's text is the content
\* between its start and its end, and the final end is the content length.
C22_SlidingExample ==
    ExampleDone =>
        /\ Len(content) = 58
        /\ Spans(chunked_content) = <<<<0, 30>>, <<20, 50>>, <<40, 58>>>>
        /\ Texts(chunked_content) =
               <<SubSeq(ExampleContent, 1, 30), SubSeq(ExampleContent, 21, 50),
                 SubSeq(ExampleContent, 41, 58)>>
        /\ chunked_content[Len(chunked_content)].end = Len(content)

C22_Witness ==
    /\ ExampleDone
    /\ chunk_char_size = 30
    /\ window_char_size = 10
    /\ Len(chunked_content) = 3

(***************************************************************************)
(* Further properties of the token-aware loop.                             *)
(***************************************************************************)

\* An iteration of the loop: an item is dequeued.
Iteration == tpc = "loop" /\ queue # <<>>

\* C23: the work-queue loop ends with the queue empty and every item
\* finished: no iteration stops the loop with an error, and no iteration
\* puts the item it dequeued back on the queue unchanged.
C23_LoopTerminates ==
    [][ Iteration =>
          /\ tpc' = "loop"
          /\ \A k \in 1..Len(Enqueued) : Enqueued[k] # Head(queue) ]_vars

\* The elements of a sequence.
Elements(s) == {s[k] : k \in 1..Len(s)}

\* The items that are queued or finished.
LiveItems ==
    [k \in 1..(Len(queue) + Len(valid_items)) |->
        IF k <= Len(queue) THEN queue[k] ELSE valid_items[k - Len(queue)].item]

\* How many queued or finished items hold character p together with
\* question q.  (The characters of the content are distinct, so a character
\* stands for its position.)
Holders(p, q) ==
    Cardinality({k \in 1..Len(LiveItems) :
                    /\ p \in Elements(LiveItems[k].content)
                    /\ q \in Elements(LiveItems[k].questions)})

\* C24: in every reachable state of the loop, every (content position,
\* question) pair of the original item lies in exactly one item that is
\* queued or finished.
C24_WorkConserved ==
    tpc \in {"loop", "done", "NameError"} =>
        \A p \in Elements(content) : \A q \in Elements(questions) :
            Holders(p, q) = 1

\* An iteration that bisected the content (lines 68-74).
ContentBisected == Iteration /\ exceed_count' = exceed_count + 1

\* An iteration that bisected the questions (lines 87-93).
QuestionsBisected ==
    Iteration /\ gen_calls' = gen_calls + 1 /\ Len(queue') = Len(queue) + 1

\* Both parts are non-empty and strictly shorter than the whole.
ProperParts(a, b, whole) ==
    /\ 0 < Len(a) /\ Len(a) < Len(whole)
    /\ 0 < Len(b) /\ Len(b) < Len(whole)

\* C25: bisecting a content slice of length >= 2 enqueues two content
\* slices that are non-empty and strictly shorter than it, and bisecting a
\* question subset of size >= 2 enqueues two question subsets that are
\* non-empty and strictly smaller than it.
C25_BisectionProgress ==
    [][ /\ (ContentBisected /\ Len(Head(queue).content) >= 2)
            => ProperParts(Enqueued[1].content, Enqueued[2].content,
                           Head(queue).content)
        /\ (QuestionsBisected /\ Len(Head(queue).questions) >= 2)
            => ProperParts(Enqueued[1].questions, Enqueued[2].questions,
                           Head(queue).questions) ]_vars

\* The token count of an item's content slice together with its question
\* subset, as the counter counts them (one token per element).
ContentAndQuestionTokens(item) == Len(item.content) + Len(item.questions)

\* C26: a generation call is issued only for an item whose content slice
\* together with its question subset is within the input limit.
C26_CallWithinInputLimit ==
    [][ (Iteration /\ gen_calls' = gen_calls + 1)
            => ContentAndQuestionTokens(Head(queue)) <= input_token_limit ]_vars

(***************************************************************************)
(* Properties of the engine's calls.                                       *)
(***************************************************************************)

\* The (chunk, batch) pairs of the request.
AllPairs == (1..eng_chunks) \X (1..eng_batches)

\* C27: for n chunks and m batches the engine issues exactly n*m generation
\* calls, one for each (chunk, batch) pair and none for the same pair twice,
\* and each call's result is merged exactly once: no pair is ever called or
\* merged twice or merged without a call, and when the engine is done every
\* pair has been called once and merged once.
C27_CrossProductCalls ==
    epc # "idle" =>
        /\ \A p \in AllPairs :
               /\ eng_issued[p] <= 1
               /\ eng_merges[p] <= eng_issued[p]
        /\ epc = "done" =>
               /\ \A p \in AllPairs : eng_issued[p] = 1 /\ eng_merges[p] = 1
               /\ SumOver(AllPairs, eng_issued) = eng_chunks * eng_batches
               /\ SumOver(AllPairs, eng_merges) = eng_chunks * eng_batches

C27_Witness ==
    /\ epc = "done"
    /\ eng_chunks >= 2
    /\ eng_batches >= 2
    /\ \A p \in AllPairs : eng_merges[p] = 1

(***************************************************************************)
(* Properties of sentence splitting.                                       *)
(***************************************************************************)

\* The characters of a text that are not whitespace, in order.
Visible(text) == SelectSeq(text, LAMBDA ch : ch \notin {" ", "\t", "\n"})

\* The sentences have been split and stripped.
Segmented == spc \in {"encode", "start", "boundaries", "chunks", "done"}

\* C28: the sentences are the content's sentences in their original order,
\* none of them is empty or whitespace-only, and empty content gives no
\* sentence; semantic chunking of empty content produces no chunk.
C28_Segmentation ==
    /\ Segmented =>
           /\ Visible(Flatten(sentences)) = Visible(content)
           /\ \A k \in 1..Len(sentences) : Visible(sentences[k]) # <<>>
           /\ content = <<>> => sentences = <<>>
    /\ (spc = "done" /\ content = <<>>) => content_chunks = <<>>

(***************************************************************************)
(* Properties of the upload wait.                                          *)
(***************************************************************************)

\* An iteration of the wait loop.
WaitLoopIteration ==
    /\ upc = "wait"
    /\ uploaded_file \in {"PROCESSING", "PENDING"}
    /\ (polls' = polls + 1 \/ upc' # "wait")

\* C29: each iteration of the wait re-reads the file state (after it the
\* state the loop tests is the state of the file on the server) and the
\* wait goes on or ends normally, so the wait ends once the file has left
\* the PROCESSING/PENDING state.
C29_WaitRereadsState ==
    [][ WaitLoopIteration =>
          /\ uploaded_file' = server_state'
          /\ upc' \in {"wait", "generate"} ]_vars

(***************************************************************************)
(* Sliding-window chunking without overlap.                                *)
(***************************************************************************)

\* The chunk sequence the fixed-chunking sample builds for a text.
FixedChunks(text, c) ==
    [k \in 1..FixedChunkCount(text, c) |-> FixedChunk(text, c, k - 1)]

\* C30: for every content and every chunk_char_size c > 0, sliding-window
\* chunking with window_char_size = 0 produces exactly the chunk sequence
\* of fixed chunking with the same c.
C30_NoOverlapIsFixed ==
    (cpc = "sliding_done" /\ window_char_size = 0) =>
        chunked_content = FixedChunks(content, chunk_char_size)

C30_Witness ==
    /\ cpc = "sliding_done"
    /\ window_char_size = 0
    /\ Len(chunked_content) >= 3
    /\ Len(content) % chunk_char_size # 0
    /\ chunked_content = FixedChunks(content, chunk_char_size)

====
